---- MODULE Spec2Model ----
(***************************************************************************)
(* The resilient request pipeline of the front end: APIConfig.request      *)
(* (src/src/config.js) with its single token refresh, and                  *)
(* APIClient.makeRequest / queueOfflineRequest / processOfflineQueue       *)
(* (src/src/api-client.js) with bounded retry and the offline queue.       *)
(*                                                                         *)
(* JavaScript runs one task at a time, so every action below is the code   *)
(* that runs between two suspension points (an awaited fetch, the awaited  *)
(* retry delay, the awaited response.json() of login).  When makeRequest   *)
(* settles, its caller continues before any other task runs.               *)
(***************************************************************************)
EXTENDS Integers, Sequences, FiniteSets, TLC

\* ------------------------------------------------------------------ bounds
\* makeRequest calls the page issues, one after the other
MaxCalls == 1
\* 'online' events over the page loads, each of which starts a replay pass
MaxPasses == 1
\* replay passes one page load can have started
MaxOverlap == 2
\* page reloads (a reload constructs a new APIClient over the same storage)
MaxReloads == 1
\* lines of one response stream
MaxLines == 3
\* calls of checkBackendStatus (one per visit of the Ask Community page)
MaxProbes == 2
\* entries of the queue a page load finds in the storage
MaxQueue == 2
\* messages the user submits in the chat
MaxChats == 2
\* items saved to the application's sync queue
MaxItems == 3
\* calls of the application's processOfflineQueue that set timers
MaxSyncs == 2

\* ------------------------------------------------------- program constants
retryAttempts == 3

\* ----------------------------------------------------------------- strings
\* Error messages are sequences of characters, so that String.includes is
\* computed and not assumed.
StrFetch == <<"f", "e", "t", "c", "h">>
StrFive == <<"5">>
StrTimeout == <<"t", "i", "m", "e", "o", "u", "t">>
StrHTTP == <<"H", "T", "T", "P", " ">>
StrColon == <<":", " ">>
\* TypeError messages of a failed fetch: Chromium and WebKit
StrFailedToFetch == <<"F", "a", "i", "l", "e", "d", " ", "t", "o", " ", "f", "e", "t", "c", "h">>
StrLoadFailed == <<"L", "o", "a", "d", " ", "f", "a", "i", "l", "e", "d">>
\* TypeError of reading .ok of undefined
StrUndefinedOk == <<"C", "a", "n", "n", "o", "t", " ", "r", "e", "a", "d", " ", "p", "r", "o", "p", "e", "r", "t", "i", "e", "s", " ", "o", "f", " ", "u", "n", "d", "e", "f", "i", "n", "e", "d", " ", "(", "r", "e", "a", "d", "i", "n", "g", " ", "'", "o", "k", "'", ")">>
StrQueued == <<"R", "e", "q", "u", "e", "s", "t", " ", "q", "u", "e", "u", "e", "d", " ", "f", "o", "r", " ", "w", "h", "e", "n", " ", "o", "n", "l", "i", "n", "e">>

\* String.prototype.includes
includes(s, pat) ==
    \E i \in 0..(Len(s) - Len(pat)) : SubSeq(s, i + 1, i + Len(pat)) = pat

\* the decimal digits of a three-digit status, as template literals print it
DigitChar(d) ==
    CASE d = 0 -> "0" [] d = 1 -> "1" [] d = 2 -> "2" [] d = 3 -> "3" [] d = 4 -> "4"
      [] d = 5 -> "5" [] d = 6 -> "6" [] d = 7 -> "7" [] d = 8 -> "8" [] d = 9 -> "9"

StatusDigits(status) ==
    <<DigitChar(status \div 100), DigitChar((status \div 10) % 10), DigitChar(status % 10)>>

\* ------------------------------------------------------------- environment
\* Status codes the server (or the service worker, which answers 503
\* 'Service Unavailable' when the network is down) can answer with.
Statuses == {200, 401, 404, 405, 503}

\* response.statusText: the reason phrase sent with the status
StatusText(status) ==
    CASE status = 200 -> <<"O", "K">>
      [] status = 401 -> <<"U", "n", "a", "u", "t", "h", "o", "r", "i", "z", "e", "d">>
      [] status = 404 -> <<"N", "o", "t", " ", "F", "o", "u", "n", "d">>
      [] status = 405 -> <<"M", "e", "t", "h", "o", "d", " ", "N", "o", "t", " ", "A", "l", "l", "o", "w", "e", "d">>
      [] status = 503 -> <<"S", "e", "r", "v", "i", "c", "e", " ", "U", "n", "a", "v", "a", "i", "l", "a", "b", "l", "e">>
      [] OTHER -> <<>>

\* (mutant) response.ok that leaves out 200
Ok_Not200(status) == status > 200 /\ status <= 299

\* response.ok
Ok(status) == status >= 200 /\ status <= 299

Is5xx(status) == status >= 500 /\ status <= 599
Is4xx(status) == status >= 400 /\ status <= 499

\* ------------------------------------------------------------------ errors
\* fetch rejects with a TypeError whose message depends on the engine
FetchErrors ==
    { [name |-> "TypeError", msg |-> "FailedToFetch", status |-> 0],
      [name |-> "TypeError", msg |-> "LoadFailed", status |-> 0] }
\* `throw new Error(`HTTP ${response.status}: ${response.statusText}`)`
HttpError(status) == [name |-> "Error", msg |-> "HTTP", status |-> status]
\* response.ok on the undefined that request returns after the redirect
UndefinedOkError == [name |-> "TypeError", msg |-> "UndefinedOk", status |-> 0]
\* `throw new Error('Request queued for when online')`
QueuedError == [name |-> "Error", msg |-> "Queued", status |-> 0]

\* error.message
message(error) ==
    CASE error.msg = "FailedToFetch" -> StrFailedToFetch
      [] error.msg = "LoadFailed" -> StrLoadFailed
      [] error.msg = "HTTP" -> StrHTTP \o StatusDigits(error.status) \o StrColon \o StatusText(error.status)
      [] error.msg = "UndefinedOk" -> StrUndefinedOk
      [] error.msg = "Queued" -> StrQueued

\* (mutant) every error is retried
shouldRetry_Always(error) == TRUE

shouldRetry(error) ==
    \/ includes(message(error), StrFetch)
    \/ includes(message(error), StrFive)
    \/ includes(message(error), StrTimeout)


\* ------------------------------------------------------------------- state
VARIABLES
    calls,          \* the makeRequest calls in progress, by slot
    passes,         \* the processOfflineQueue runs of this page load
    offlineQueue,   \* APIClient.offlineQueue (in memory)
    storage,        \* localStorage: offline_queue, access_token, refresh_token,
                    \* agri_user_profile
    onLine,         \* navigator.onLine
    now,            \* Date.now(), read when an entry is enqueued
    reloads,        \* page loads so far
    nCalls,         \* makeRequest calls the page has issued so far
    nPasses,        \* 'online' events so far
    replayed,       \* timestamps of the entries a replay pass has called makeRequest for
    tracing,        \* whether `log` is kept in this behaviour (never changes)
    log             \* per call: what request returned each time, the fetches,
                    \* refreshes, redirects and delays of the call (n..) and of
                    \* its current call of request (r..), and the header sent
VARIABLES
    chat            \* AppState.chatbot (isTyping, messageHistory) and the
                    \* sendChatMessage calls of the page
VARIABLES
    sync            \* the application's own sync queue: AppState.offlineQueue,
                    \* AppState.isOffline, localStorage 'agri_offline_queue' and
                    \* the timers of processOfflineQueue (script.js)
VARIABLES
    health          \* AppState.backendStatus, the status indicator, and the
                    \* calls of checkBackendStatus that are running
VARIABLES
    stream          \* the response stream a decode loop of script.js is reading:
                    \* the loop's variables, and the chunks it has read

vars == <<calls, passes, offlineQueue, storage, onLine, now, reloads, nCalls, nPasses,
          replayed, tracing, log, stream, health, chat, sync>>

\* the call of the page, and the call each replay pass is awaiting
PageSlot == 0
Passes == 1..MaxOverlap
PassSlot(p) == p
PassSlots == {PassSlot(p) : p \in Passes}
Slots == {PageSlot} \cup PassSlots
PassOf(c) == c

\* localStorage.getItem of a missing key
NoItem == "null"
Absent == "absent"

\* the access token and the refresh token the server hands out at login,
\* and the access token it hands out at a refresh
LoginTokens == {"a1"}
RefreshTokens == {"r1"}
RefreshedTokens == {"a2"}

\* The calls the page makes: getUserProfile (no options) and login (a POST
\* of a FormData with `headers: {}`).
ReqProfile ==
    [endpoint |-> "/users/me",
     options |-> [method |-> Absent, body |-> Absent, headers |-> Absent]]
ReqLogin ==
    [endpoint |-> "/token",
     options |-> [method |-> "POST", body |-> "FormData", headers |-> "{}"]]
Requests == {ReqProfile, ReqLogin}
\* submitDetection: a POST of a FormData with `headers: {}`, to an endpoint
\* that needs the bearer token
ReqDetection ==
    [endpoint |-> "/detection/submit",
     options |-> [method |-> "POST", body |-> "FormData", headers |-> "{}"]]

\* JSON.stringify of the options: a FormData has no enumerable own
\* properties and is written as {}; plain strings and {} are kept.
StringifyOptions(options) ==
    [options EXCEPT !.body = IF @ = "FormData" THEN "{}" ELSE @]

\* JSON.stringify(this.offlineQueue), as the parsed value it stands for
Stringify(queue) ==
    [i \in 1..Len(queue) |->
        [endpoint |-> queue[i].endpoint,
         options |-> StringifyOptions(queue[i].options),
         timestamp |-> queue[i].timestamp]]

\* JSON.parse(localStorage.getItem('offline_queue') || '[]')
PersistedQueue(st) == IF st.offline_queue.set THEN st.offline_queue.value ELSE <<>>

\* an Authorization header `Bearer ${token}`, and no Authorization header
Bearer(token) == [scheme |-> "Bearer", token |-> token]
NoHeader == [scheme |-> "none", token |-> "none"]

NoError == [name |-> "none", msg |-> "none", status |-> 0]
NoOutcome == [kind |-> "none", status |-> 0, error |-> NoError]

IdleCall ==
    [pc |-> "idle", endpoint |-> "", options |-> ReqProfile.options, attempt |-> 0,
     caught |-> NoError, outcome |-> NoOutcome, queued |-> FALSE]

IdlePass == [pc |-> "idle", queue |-> <<>>, idx |-> 0, outcomes |-> <<>>]

NoLog ==
    [results |-> <<>>, nRequest |-> 0, nFetch |-> 0, nRefresh |-> 0, nRedirect |-> 0,
     nDelay |-> 0, rFetch |-> 0, rRefresh |-> 0, sentAuth |-> NoHeader, refreshed |-> "none",
     sentType |-> Absent]

\* `if (token)`: null and the empty string are falsy
Truthy(item) == item # NoItem /\ item # ""

\* (mutant) getHeaders without the Authorization header
getHeaders_NoAuth(st) == [ContentType |-> "application/json", Authorization |-> NoHeader]

\* getHeaders: the Content-Type, and the Authorization header when the
\* storage holds an access token
getHeaders(st) ==
    [ContentType |-> "application/json",
     Authorization |-> IF Truthy(st.access_token) THEN Bearer(st.access_token) ELSE NoHeader]

\* the headers object a caller passes: `headers: {}` is the only one callers pass
CallerHeaders(options) == [ContentType |-> Absent, Authorization |-> NoHeader]

\* `{ headers: this.getHeaders(), ...options }`: an options.headers, when
\* present, takes the place of the computed headers
ConfigHeaders(st, options) ==
    IF options.headers # Absent THEN CallerHeaders(options) ELSE getHeaders(st)

\* the Authorization header of the fetch
ConfigAuth(st, options) == ConfigHeaders(st, options).Authorization

\* request up to its first `await fetch(url, config)`
request(rec) == [rec EXCEPT !.pc = "fetch"]

\* the log of that: one more call of request, one more fetch, and the
\* Authorization header the fetch carries
LogRequest(l, st, options) ==
    [l EXCEPT !.nRequest = @ + 1, !.nFetch = @ + 1, !.rFetch = 1, !.rRefresh = 0,
              !.sentAuth = ConfigAuth(st, options), !.refreshed = "none",
              !.sentType = ConfigHeaders(st, options).ContentType]

\* makeRequest(endpoint, options) up to the first suspension
makeRequest(endpoint, options) ==
    request([IdleCall EXCEPT !.endpoint = endpoint, !.options = options, !.attempt = 1])

\* `log` is written only in behaviours that keep it
Trace(c, l) == log' = IF tracing THEN [log EXCEPT ![c] = l] ELSE log

\* a makeRequest call has settled and its caller has not continued yet
Settled == \E c \in Slots : calls[c].pc = "done"

\* ---------------------------------------------------------- stream decoder
\* Texts are sequences of words.  A field an envelope does not have reads
\* as undefined.
Missing == <<"undefined">>
StatusThinking == <<"thinking">>
StatusComplete == <<"complete">>
ErrorText == <<"failed">>
Fragments == {<<"a">>, <<"b">>}
Answers == {<<"a", "b">>}

\* `if (data.field)`: undefined and the empty string are falsy
TruthyText(text) == text # Missing /\ text # <<>>

\* a parsed line without any of the fields the loops look at
NoEnvelope ==
    [error |-> Missing, status |-> Missing,
     generated_answer_chunk |-> Missing, generated_answer |-> Missing,
     response_chunk |-> Missing, response |-> Missing]

\* what POST /query streams (setupBackendQueryForm) and what POST
\* /chatbot/message streams (sendChatMessage)
QueryEnvelopes ==
    {[NoEnvelope EXCEPT !.status = StatusThinking]}
    \cup {[NoEnvelope EXCEPT !.generated_answer_chunk = f] : f \in Fragments}
    \cup {[NoEnvelope EXCEPT !.status = StatusComplete, !.generated_answer = a] : a \in Answers}
    \cup {[NoEnvelope EXCEPT !.status = StatusComplete]}
    \cup {[NoEnvelope EXCEPT !.generated_answer = a] : a \in Answers}
    \cup {[NoEnvelope EXCEPT !.error = ErrorText]}
ChatEnvelopes ==
    {[NoEnvelope EXCEPT !.status = StatusThinking]}
    \cup {[NoEnvelope EXCEPT !.response_chunk = f] : f \in Fragments}
    \cup {[NoEnvelope EXCEPT !.status = StatusComplete, !.response = a] : a \in Answers}
    \cup {[NoEnvelope EXCEPT !.status = StatusComplete]}
    \cup {[NoEnvelope EXCEPT !.response = a] : a \in Answers}
    \cup {[NoEnvelope EXCEPT !.error = ErrorText]}
Envelopes(decoder) == IF decoder = "query" THEN QueryEnvelopes ELSE ChatEnvelopes

\* The text of a chunk, in pieces: a newline, the JSON text of an envelope,
\* the first or the second part of such a text cut in two, text that is not
\* JSON (`{"response_chunk":`), white space.
Tok(k, e) == [k |-> k, e |-> e]
NL == Tok("nl", NoEnvelope)
LineTokens(decoder) ==
    {Tok("json", e) : e \in Envelopes(decoder)}
    \cup {Tok("text", NoEnvelope), Tok("space", NoEnvelope)}

\* the chunk that ends the line cut by the chunk before it (tail), holds
\* whole lines, and ends with the first part of a line (head)
Terminated(lines) ==
    LET F[i \in 0..Len(lines)] ==
            IF i = 0 THEN <<>> ELSE F[i - 1] \o <<lines[i], NL>>
    IN  F[Len(lines)]
Chunk(tail, lines, head) ==
    (IF tail # NoEnvelope THEN <<Tok("tail", tail), NL>> ELSE <<>>)
    \o Terminated(lines)
    \o (IF head # NoEnvelope THEN <<Tok("head", head)>> ELSE <<>>)

\* chunk.split('\n')
Split(chunk) ==
    LET F[i \in 0..Len(chunk)] ==
            IF i = 0 THEN << <<>> >>
            ELSE IF chunk[i].k = "nl" THEN Append(F[i - 1], <<>>)
            ELSE [F[i - 1] EXCEPT ![Len(F[i - 1])] = Append(@, chunk[i])]
    IN  F[Len(chunk)]

\* .filter(line => line.trim())
IsInk(tok) == tok.k # "space"
NonBlank(line) == SelectSeq(line, IsInk) # <<>>

\* a parser fed with the line put together again from its two parts
Parse_Reassembled(line) ==
    LET ink == SelectSeq(line, IsInk)
    IN  IF Len(ink) = 1 /\ ink[1].k \in {"json", "tail"}
        THEN [ok |-> TRUE, data |-> ink[1].e]
        ELSE [ok |-> FALSE, data |-> NoEnvelope]

\* JSON.parse(line): one JSON text, white space around it allowed;
\* anything else throws
Parse(line) ==
    LET ink == SelectSeq(line, IsInk)
    IN  IF Len(ink) = 1 /\ ink[1].k = "json"
        THEN [ok |-> TRUE, data |-> ink[1].e]
        ELSE [ok |-> FALSE, data |-> NoEnvelope]

\* The variables of a decode loop: fullAnswer / botResponse (acc), and what
\* the loop has done so far: final answers displayed (completions), errors
\* shown to the user (shown), errors logged by the catch of a line (logged),
\* answer updates (updates) and status updates (statuses) displayed.
NewDecoder ==
    [acc |-> <<>>, completions |-> 0, shown |-> 0, logged |-> 0, updates |-> 0,
     statuses |-> 0]

\* setupBackendQueryForm with `fullAnswer = chunk + fullAnswer`
QueryEnvelope_Prepends(d, data) ==
    IF TruthyText(data.error) THEN [d EXCEPT !.logged = @ + 1]
    ELSE LET d1 == IF TruthyText(data.status) THEN [d EXCEPT !.statuses = @ + 1] ELSE d
             d2 == IF TruthyText(data.generated_answer_chunk)
                   THEN [d1 EXCEPT !.acc = data.generated_answer_chunk \o @,
                                   !.updates = @ + 1]
                   ELSE d1
         IN  IF data.status = StatusComplete THEN [d2 EXCEPT !.completions = @ + 1] ELSE d2

\* setupBackendQueryForm with the status text added to fullAnswer
QueryEnvelope_StatusAppends(d, data) ==
    IF TruthyText(data.error) THEN [d EXCEPT !.logged = @ + 1]
    ELSE LET d1 == IF TruthyText(data.status)
                   THEN [d EXCEPT !.statuses = @ + 1, !.acc = @ \o data.status]
                   ELSE d
             d2 == IF TruthyText(data.generated_answer_chunk)
                   THEN [d1 EXCEPT !.acc = @ \o data.generated_answer_chunk,
                                   !.updates = @ + 1]
                   ELSE d1
         IN  IF data.status = StatusComplete THEN [d2 EXCEPT !.completions = @ + 1] ELSE d2

\* the body of the `try` of setupBackendQueryForm for one parsed line; the
\* `throw new Error(data.error)` is caught by the catch of the same line
QueryEnvelope(d, data) ==
    IF TruthyText(data.error) THEN [d EXCEPT !.logged = @ + 1]
    ELSE LET d1 == IF TruthyText(data.status) THEN [d EXCEPT !.statuses = @ + 1] ELSE d
             d2 == IF TruthyText(data.generated_answer_chunk)
                   THEN [d1 EXCEPT !.acc = @ \o data.generated_answer_chunk,
                                   !.updates = @ + 1]
                   ELSE d1
         IN  IF data.status = StatusComplete THEN [d2 EXCEPT !.completions = @ + 1] ELSE d2

\* sendChatMessage with a completion that leaves botResponse as it is
ChatEnvelope_KeepsAccumulator(d, data) ==
    IF TruthyText(data.response_chunk)
    THEN [d |-> [d EXCEPT !.acc = @ \o data.response_chunk, !.updates = @ + 1],
          brk |-> FALSE]
    ELSE IF TruthyText(data.response) /\ data.status = StatusComplete
    THEN [d |-> [d EXCEPT !.completions = @ + 1], brk |-> TRUE]
    ELSE IF TruthyText(data.error)
    THEN [d |-> [d EXCEPT !.shown = @ + 1], brk |-> TRUE]
    ELSE [d |-> d, brk |-> FALSE]

\* sendChatMessage with a completion on either a response or the status
ChatEnvelope_CompletesOnEither(d, data) ==
    IF TruthyText(data.response_chunk)
    THEN [d |-> [d EXCEPT !.acc = @ \o data.response_chunk, !.updates = @ + 1],
          brk |-> FALSE]
    ELSE IF TruthyText(data.response) \/ data.status = StatusComplete
    THEN [d |-> [d EXCEPT !.acc = data.response, !.completions = @ + 1], brk |-> TRUE]
    ELSE IF TruthyText(data.error)
    THEN [d |-> [d EXCEPT !.shown = @ + 1], brk |-> TRUE]
    ELSE [d |-> d, brk |-> FALSE]

\* the body of the `try` of sendChatMessage for one parsed line; brk is the
\* `break` out of the loop over the lines of the chunk
ChatEnvelope(d, data) ==
    IF TruthyText(data.response_chunk)
    THEN [d |-> [d EXCEPT !.acc = @ \o data.response_chunk, !.updates = @ + 1],
          brk |-> FALSE]
    ELSE IF TruthyText(data.response) /\ data.status = StatusComplete
    THEN [d |-> [d EXCEPT !.acc = data.response, !.completions = @ + 1], brk |-> TRUE]
    ELSE IF TruthyText(data.error)
    THEN [d |-> [d EXCEPT !.shown = @ + 1], brk |-> TRUE]
    ELSE [d |-> d, brk |-> FALSE]

\* a loop whose catch leaves the loop over the lines of the chunk
DecodeLine_StopsOnParseError(decoder, d, line) ==
    LET parsed == Parse(line)
    IN  IF ~parsed.ok THEN [d |-> [d EXCEPT !.logged = @ + 1], brk |-> TRUE]
        ELSE IF decoder = "query" THEN [d |-> QueryEnvelope(d, parsed.data), brk |-> FALSE]
        ELSE ChatEnvelope(d, parsed.data)

\* one turn of `for (const line of lines)`
DecodeLine(decoder, d, line) ==
    LET parsed == Parse(line)
    IN  IF ~parsed.ok THEN [d |-> [d EXCEPT !.logged = @ + 1], brk |-> FALSE]
        ELSE IF decoder = "query" THEN [d |-> QueryEnvelope(d, parsed.data), brk |-> FALSE]
        ELSE ChatEnvelope(d, parsed.data)

\* `for (const line of lines) { .. }`
DecodeLines(decoder, d, lines) ==
    LET F[i \in 0..Len(lines)] ==
            IF i = 0 THEN [d |-> d, brk |-> FALSE]
            ELSE IF F[i - 1].brk THEN F[i - 1]
            ELSE DecodeLine(decoder, F[i - 1].d, lines[i])
    IN  F[Len(lines)].d

\* the body of `while (true)` for one chunk read
DecodeChunk(decoder, d, chunk) ==
    DecodeLines(decoder, d, SelectSeq(Split(chunk), NonBlank))

\* ------------------------------------------------------------ health probe
Probes == 1..MaxProbes

\* a call of checkBackendStatus: where it is (idle, fetch: awaiting the
\* fetch with the 3 s timer armed, json: awaiting response.json() with the
\* timer cleared, done), the status of the response if one came, how the
\* call ended, and what it returned
IdleProbe == [pc |-> "idle", status |-> 0, cause |-> "none", returned |-> FALSE]

\* AppState.backendStatus = {available: false, lastChecked: null}; the
\* indicator element shows what updateBackendStatusIndicator was last given
InitHealth ==
    [available |-> FALSE, lastChecked |-> 0, indicator |-> "unset", clock |-> 1,
     probes |-> [p \in Probes |-> IdleProbe]]

\* the end of checkBackendStatus: the `return true` of the response.ok
\* branch, or the statements after the try
Finish_AlwaysAvailable(h, p, available, cause) ==
    [h EXCEPT !.available = TRUE,
              !.lastChecked = h.clock,
              !.clock = @ + 1,
              !.indicator = "online",
              !.probes[p] = [@ EXCEPT !.pc = "done", !.cause = cause,
                                      !.returned = TRUE]]
Finish(h, p, available, cause) ==
    [h EXCEPT !.available = available,
              !.lastChecked = h.clock,
              !.clock = @ + 1,
              !.indicator = IF available THEN "online" ELSE "offline",
              !.probes[p] = [@ EXCEPT !.pc = "done", !.cause = cause,
                                      !.returned = available]]

\* ---------------------------------------------------- application sync queue
\* AppState.offlineQueue = [], isOffline = false, nothing stored, no timer,
\* before DOMContentLoaded
NoSync ==
    [pc |-> "boot", queue |-> <<>>, isOffline |-> FALSE,
     stored |-> [set |-> FALSE, value |-> <<>>], timers |-> <<>>,
     nItems |-> 0, added |-> FALSE]

\* queue.filter((_, i) => i !== index), index counted from 0
RemoveAt(queue, index) ==
    IF index + 1 \in 1..Len(queue)
    THEN SubSeq(queue, 1, index) \o SubSeq(queue, index + 2, Len(queue))
    ELSE queue

\* saveOfflineQueue
saveOfflineQueue(sy) == [sy EXCEPT !.stored = [set |-> TRUE, value |-> sy.queue]]

\* loadOfflineQueue: `if (queue) AppState.offlineQueue = JSON.parse(queue)`
loadOfflineQueue(sy) == IF sy.stored.set THEN [sy EXCEPT !.queue = sy.stored.value] ELSE sy

\* processOfflineQueue of script.js: nothing for an empty queue; otherwise
\* one timer per item, the timer of index i due after (i + 1) seconds.  The
\* timers of one call fire in the order of their indexes: n is their
\* number, next the index of the one due next.
processOfflineQueue(sy) ==
    IF sy.queue = <<>> THEN sy
    ELSE [sy EXCEPT !.timers = Append(@, [n |-> Len(sy.queue), next |-> 0]),
                    !.added = FALSE]

handleOnline(sy) == processOfflineQueue([sy EXCEPT !.isOffline = FALSE])
handleOffline(sy) == [sy EXCEPT !.isOffline = TRUE]

\* updateNetworkStatus: AppState.isOffline = !navigator.onLine, then the
\* handler of that state
updateNetworkStatus(sy, online) == IF ~online THEN handleOffline(sy) ELSE handleOnline(sy)

\* initializeOfflineSupport: updateNetworkStatus(), then loadOfflineQueue()
initializeOfflineSupport(sy, online) ==
    [loadOfflineQueue(updateNetworkStatus(sy, online)) EXCEPT !.pc = "running"]

\* the callback of the timer of index `index`: filter the item at that
\* index out of the queue as it is now, and save
TimerBody(sy, index) ==
    saveOfflineQueue([sy EXCEPT !.queue = RemoveAt(@, index)])

\* -------------------------------------------------------------------- chat
Chats == 1..MaxChats

\* a sendChatMessage call: idle (not yet submitted), fetch (awaiting the
\* POST), reading (in the decode loop), ended; the chunks it has decoded
\* into its botResponse, and how it ended
IdleChat == [pc |-> "idle", chunks |-> 0, cause |-> "none"]

\* AppState.chatbot = {isTyping: false, messageHistory: []}; refused counts
\* the submits handleChatSubmit has returned from at once
InitChat ==
    [isTyping |-> FALSE, messageHistory |-> <<>>, refused |-> 0,
     calls |-> [k \in Chats |-> IdleChat]]

\* (mutant) a handleChatSubmit that does not look at isTyping
SubmitAccepted_Always(isTyping) == TRUE

\* handleChatSubmit with a non-empty message: `if (!message || isTyping) return`
SubmitAccepted(isTyping) == ~isTyping

\* (mutant) a sendChatMessage without the `finally`: only the normal end
\* resets isTyping
EndChat_NoFinally(ch, k, cause) ==
    [ch EXCEPT !.isTyping = IF cause = "exhausted" THEN FALSE ELSE @,
               !.messageHistory = IF cause = "exhausted" THEN Append(@, k) ELSE @,
               !.calls[k] = [@ EXCEPT !.pc = "ended", !.cause = cause]]

\* the end of sendChatMessage: after the loop the exchange is pushed to the
\* message history; an error goes to the catch; `finally` resets isTyping
EndChat(ch, k, cause) ==
    [ch EXCEPT !.isTyping = FALSE,
               !.messageHistory = IF cause = "exhausted" THEN Append(@, k) ELSE @,
               !.calls[k] = [@ EXCEPT !.pc = "ended", !.cause = cause]]

IdleStream ==
    [decoder |-> "none", pc |-> "idle", d |-> NewDecoder, received |-> <<>>,
     cut |-> NoEnvelope, nLines |-> 0]

EmptyStorage ==
    [offline_queue |-> [set |-> FALSE, value |-> <<>>],
     access_token |-> NoItem, refresh_token |-> NoItem, agri_user_profile |-> NoItem]

\* the profile saveUserData keeps under STORAGE_KEYS.USER_PROFILE
SavedProfile == "profile"

\* The state after `new APIClient()`, on a page load that finds no offline
\* queue in the storage, and finds the tokens an earlier login may have left.
InitState ==
    /\ calls = [c \in Slots |-> IdleCall]
    /\ passes = [p \in Passes |-> IdlePass]
    /\ offlineQueue = <<>>
    /\ \E access \in LoginTokens \cup {NoItem}, refresh \in RefreshTokens \cup {NoItem} :
          storage = [EmptyStorage EXCEPT !.access_token = access, !.refresh_token = refresh,
                                         !.agri_user_profile = SavedProfile]
    /\ onLine \in BOOLEAN
    /\ now = 1
    /\ reloads = 0
    /\ nCalls = 0
    /\ nPasses = 0
    /\ replayed = {}
    /\ log = [c \in Slots |-> NoLog]
    /\ stream = IdleStream
    /\ health = InitHealth
    /\ chat = InitChat
    /\ sync = NoSync

Init ==
    /\ InitState
    /\ tracing = FALSE

\* what request handed to makeRequest: a response, a thrown error, or
\* undefined (after the redirect)
Resp(status) == [t |-> "resp", status |-> status, error |-> NoError]
Thrown(error) == [t |-> "throw", status |-> 0, error |-> error]
Undefined == [t |-> "undef", status |-> 0, error |-> NoError]

\* the error makeRequest's catch block receives for a result of request
CaughtError(res) ==
    CASE res.t = "throw" -> res.error
      [] res.t = "undef" -> UndefinedOkError
      [] res.t = "resp" -> HttpError(res.status)

\* every error makeRequest can catch
Errors == FetchErrors \cup {HttpError(status) : status \in Statuses} \cup {UndefinedOkError}

\* shouldRetry, computed once for every error
Retryable == [error \in Errors |-> shouldRetry(error)]

\* (mutant) one attempt too few
RetryDecision_TwoAttempts(attempt, error) == attempt < retryAttempts - 1 /\ Retryable[error]

\* (mutant) no bound on the attempts
RetryDecision_Unbounded(attempt, error) == Retryable[error]

\* `attempt < this.retryAttempts && this.shouldRetry(error)`
\* (mutant) one attempt more than retryAttempts
RetryDecision_FourAttempts(attempt, error) == attempt < retryAttempts + 1 /\ Retryable[error]

RetryDecision(attempt, error) == attempt < retryAttempts /\ Retryable[error]

\* (mutant) enqueue whether online or not
QueueDecision_Always(online) == TRUE

\* `if (!navigator.onLine)` once no retry follows
QueueDecision(online) == ~online

\* queueOfflineRequest: push, then persist the whole in-memory queue
\* (mutant) a queue that holds each endpoint and options once
queueOfflineRequest_Deduplicating(queue, endpoint, options, timestamp) ==
    IF \E i \in 1..Len(queue) : queue[i].endpoint = endpoint /\ queue[i].options = options
    THEN queue
    ELSE Append(queue, [endpoint |-> endpoint, options |-> options, timestamp |-> timestamp])

queueOfflineRequest(queue, endpoint, options, timestamp) ==
    Append(queue, [endpoint |-> endpoint, options |-> options, timestamp |-> timestamp])

PersistQueue(st, queue) ==
    [st EXCEPT !.offline_queue = [set |-> TRUE, value |-> Stringify(queue)]]

\* what makeRequest throws once no retry follows
ThrownError(queue, error) == IF queue THEN QueuedError ELSE error

\* (mutant) a makeRequest that sends the next attempt at once, without
\* awaiting the delay
Settle_NoDelay(c, l, res) ==
    LET call == calls[c]
        isOk == res.t = "resp" /\ Ok(res.status)
        error == CaughtError(res)
        retry == ~isOk /\ RetryDecision(call.attempt, error)
        queue == ~isOk /\ ~retry /\ QueueDecision(onLine)
        q1 == IF queue
              THEN queueOfflineRequest(offlineQueue, call.endpoint, call.options, now)
              ELSE offlineQueue
        outcome == IF isOk THEN [kind |-> "response", status |-> res.status, error |-> NoError]
                   ELSE [kind |-> "error", status |-> 0,
                         error |-> ThrownError(queue, error)]
        l1 == [l EXCEPT !.results = Append(@, res)]
    IN  IF retry
        THEN /\ calls' = [calls EXCEPT ![c] = request([call EXCEPT !.attempt = @ + 1])]
             /\ Trace(c, LogRequest(l1, storage, call.options))
             /\ UNCHANGED <<offlineQueue, storage, now>>
        ELSE /\ calls' = [calls EXCEPT ![c] =
                    [call EXCEPT !.pc = "done", !.outcome = outcome, !.queued = queue,
                                 !.caught = IF isOk THEN @ ELSE error]]
             /\ Trace(c, l1)
             /\ offlineQueue' = q1
             /\ storage' = IF queue THEN PersistQueue(storage, q1) ELSE storage
             /\ now' = IF queue THEN now + 1 ELSE now

\* makeRequest from the point where request has settled with `res`: return
\* the response, or wait for the retry delay, or enqueue and throw, or throw.
\* `l` is the call's log up to here.
Settle(c, l, res) ==
    LET call == calls[c]
        isOk == res.t = "resp" /\ Ok(res.status)
        error == CaughtError(res)
        retry == ~isOk /\ RetryDecision(call.attempt, error)
        queue == ~isOk /\ ~retry /\ QueueDecision(onLine)
        q1 == IF queue
              THEN queueOfflineRequest(offlineQueue, call.endpoint, call.options, now)
              ELSE offlineQueue
        outcome == IF isOk THEN [kind |-> "response", status |-> res.status, error |-> NoError]
                   ELSE [kind |-> "error", status |-> 0,
                         error |-> ThrownError(queue, error)]
        l1 == [l EXCEPT !.results = Append(@, res)]
    IN  IF retry
        THEN /\ calls' = [calls EXCEPT ![c] = [call EXCEPT !.pc = "delay"]]
             /\ Trace(c, [l1 EXCEPT !.nDelay = @ + 1])
             /\ UNCHANGED <<offlineQueue, storage, now>>
        ELSE /\ calls' = [calls EXCEPT ![c] =
                    [call EXCEPT !.pc = "done", !.outcome = outcome, !.queued = queue,
                                 !.caught = IF isOk THEN @ ELSE error]]
             /\ Trace(c, l1)
             /\ offlineQueue' = q1
             /\ storage' = IF queue THEN PersistQueue(storage, q1) ELSE storage
             /\ now' = IF queue THEN now + 1 ELSE now

\* `window.location.href = '/login'; return;` in request
Redirect(l) == [l EXCEPT !.nRedirect = @ + 1]

\* the page calls makeRequest (through getUserProfile, login or submitDetection)
StartCall(r) ==
    /\ ~Settled
    /\ calls[PageSlot].pc = "idle"
    /\ nCalls < MaxCalls
    /\ nCalls' = nCalls + 1
    /\ calls' = [calls EXCEPT ![PageSlot] = makeRequest(r.endpoint, r.options)]
    /\ Trace(PageSlot, LogRequest(NoLog, storage, r.options))
    /\ UNCHANGED <<passes, offlineQueue, storage, onLine, now, reloads, nPasses, replayed, tracing, stream, health, chat, sync>>

\* refreshToken's `if (!refreshToken) return false`
HasRefreshToken(st) == st.refresh_token # NoItem

\* the first fetch of request answers with a status; on 401 refreshToken
\* runs up to its own fetch, or returns false at once without refresh token
FetchRespond(c, status) ==
    /\ ~Settled
    /\ calls[c].pc = "fetch"
    /\ IF status = 401
       THEN IF ~HasRefreshToken(storage)
            THEN Settle(c, Redirect(log[c]), Undefined)
            ELSE /\ calls' = [calls EXCEPT ![c] = [@ EXCEPT !.pc = "refresh"]]
                 /\ Trace(c, [log[c] EXCEPT !.nRefresh = @ + 1, !.rRefresh = @ + 1])
                 /\ UNCHANGED <<offlineQueue, storage, now>>
       ELSE Settle(c, log[c], Resp(status))
    /\ UNCHANGED <<passes, onLine, reloads, nCalls, nPasses, replayed, tracing, stream, health, chat, sync>>

\* the first fetch of request rejects: request rethrows
FetchFail(c, error) ==
    /\ ~Settled
    /\ calls[c].pc = "fetch"
    /\ Settle(c, log[c], Thrown(error))
    /\ UNCHANGED <<passes, onLine, reloads, nCalls, nPasses, replayed, tracing, stream, health, chat, sync>>

\* (mutant) the refresh token is used up by the refresh
StoreAccessToken_SingleUse(st, token) ==
    [st EXCEPT !.access_token = token, !.refresh_token = NoItem]

\* (mutant) the new access token is not stored
StoreAccessToken_Dropped(st, token) == st

\* refreshToken after a 2xx answer: localStorage.setItem('access_token', ..)
StoreAccessToken(st, token) == [st EXCEPT !.access_token = token]

\* refreshToken's fetch answers: a 2xx stores data.access_token and request
\* sends the call again with recomputed headers; otherwise the redirect
RefreshRespond(c, status, token) ==
    /\ ~Settled
    /\ calls[c].pc = "refresh"
    /\ IF Ok(status)
       THEN LET st1 == StoreAccessToken(storage, token)
            IN  /\ storage' = st1
                /\ calls' = [calls EXCEPT ![c] = [@ EXCEPT !.pc = "refetch"]]
                /\ Trace(c, [log[c] EXCEPT !.nFetch = @ + 1, !.rFetch = @ + 1,
                                           !.refreshed = token,
                                           !.sentAuth = getHeaders(st1).Authorization,
                                           !.sentType = getHeaders(st1).ContentType])
                /\ UNCHANGED <<offlineQueue, now>>
       ELSE Settle(c, Redirect(log[c]), Undefined)
    /\ UNCHANGED <<passes, onLine, reloads, nCalls, nPasses, replayed, tracing, stream, health, chat, sync>>

\* refreshToken's fetch rejects: caught, refreshToken returns false
RefreshFail(c) ==
    /\ ~Settled
    /\ calls[c].pc = "refresh"
    /\ Settle(c, Redirect(log[c]), Undefined)
    /\ UNCHANGED <<passes, onLine, reloads, nCalls, nPasses, replayed, tracing, stream, health, chat, sync>>

\* `return fetch(url, config)` after the refresh: whatever it answers is
\* what request returns
RefetchRespond(c, status) ==
    /\ ~Settled
    /\ calls[c].pc = "refetch"
    /\ Settle(c, log[c], Resp(status))
    /\ UNCHANGED <<passes, onLine, reloads, nCalls, nPasses, replayed, tracing, stream, health, chat, sync>>

RefetchFail(c, error) ==
    /\ ~Settled
    /\ calls[c].pc = "refetch"
    /\ Settle(c, log[c], Thrown(error))
    /\ UNCHANGED <<passes, onLine, reloads, nCalls, nPasses, replayed, tracing, stream, health, chat, sync>>

\* `await this.delay(this.retryDelay)` is over: makeRequest(.., attempt + 1)
DelayElapsed(c) ==
    /\ ~Settled
    /\ calls[c].pc = "delay"
    /\ calls' = [calls EXCEPT ![c] = request([@ EXCEPT !.attempt = @ + 1])]
    /\ Trace(c, LogRequest(log[c], storage, calls[c].options))
    /\ UNCHANGED <<passes, offlineQueue, storage, onLine, now, reloads, nCalls, nPasses, replayed,
                   tracing, stream, health, chat, sync>>

\* The caller of the page's makeRequest continues: login goes on to
\* `await response.json()`, every other caller is finished with the call.
PageReturn ==
    /\ calls[PageSlot].pc = "done"
    /\ calls' = [calls EXCEPT ![PageSlot] =
           IF @.outcome.kind = "response" /\ @.endpoint = ReqLogin.endpoint
           THEN [IdleCall EXCEPT !.pc = "json"]
           ELSE IdleCall]
    /\ Trace(PageSlot, NoLog)
    /\ UNCHANGED <<passes, offlineQueue, storage, onLine, now, reloads, nCalls, nPasses, replayed,
                   tracing, stream, health, chat, sync>>

\* login, once the body is read: store the tokens of the answer
LoginStore(access, refresh) ==
    /\ ~Settled
    /\ calls[PageSlot].pc = "json"
    /\ storage' = [storage EXCEPT !.access_token = access,
                                  !.refresh_token = IF refresh # Absent THEN refresh ELSE @]
    /\ calls' = [calls EXCEPT ![PageSlot] = IdleCall]
    /\ UNCHANGED <<passes, offlineQueue, onLine, now, reloads, nCalls, nPasses, replayed, tracing, log, stream, health, chat, sync>>

\* (mutant) the persisted queue is left in place
ClearPersisted_Kept(st) == st

\* the end of processOfflineQueue: removeItem('offline_queue'), and
\* `this.offlineQueue = []`
ClearPersisted(st) == [st EXCEPT !.offline_queue = [set |-> FALSE, value |-> <<>>]]
ClearedQueue(queue) == <<>>

\* processOfflineQueue continues after the makeRequest it awaited: the next
\* entry of its copy of the queue, or the end of the pass
\* (mutant) a processOfflineQueue without the try/catch around the replay:
\* the error of a failed replay leaves the function
PassReturn_Throws(p) ==
    LET c == PassSlot(p)
        pass == passes[p]
        result == IF calls[c].outcome.kind = "response" THEN "ok" ELSE "failed"
        next == pass.idx + 1
    IN  /\ calls[c].pc = "done"
        /\ IF next <= Len(pass.queue) /\ result = "ok"
           THEN /\ replayed' = replayed \cup {pass.queue[next].timestamp}
                /\ passes' = [passes EXCEPT ![p] =
                       [pass EXCEPT !.idx = next, !.outcomes = Append(@, result)]]
                /\ calls' = [calls EXCEPT ![c] =
                       makeRequest(pass.queue[next].endpoint, pass.queue[next].options)]
                /\ Trace(c, LogRequest(NoLog, storage, pass.queue[next].options))
                /\ UNCHANGED <<offlineQueue, storage>>
           ELSE /\ passes' = [passes EXCEPT ![p] =
                       [pass EXCEPT !.pc = "done", !.idx = next,
                                    !.outcomes = Append(@, result)]]
                /\ calls' = [calls EXCEPT ![c] = IdleCall]
                /\ Trace(c, NoLog)
                /\ offlineQueue' = IF result = "ok" THEN ClearedQueue(offlineQueue)
                                   ELSE offlineQueue
                /\ storage' = IF result = "ok" THEN ClearPersisted(storage) ELSE storage
                /\ UNCHANGED replayed
        /\ UNCHANGED <<onLine, now, reloads, nCalls, nPasses, tracing, stream, health, chat, sync>>

PassReturn(p) ==
    LET c == PassSlot(p)
        pass == passes[p]
        result == IF calls[c].outcome.kind = "response" THEN "ok" ELSE "failed"
        next == pass.idx + 1
    IN  /\ calls[c].pc = "done"
        /\ IF next <= Len(pass.queue)
           THEN /\ replayed' = replayed \cup {pass.queue[next].timestamp}
                /\ passes' = [passes EXCEPT ![p] =
                       [pass EXCEPT !.idx = next, !.outcomes = Append(@, result)]]
                /\ calls' = [calls EXCEPT ![c] =
                       makeRequest(pass.queue[next].endpoint, pass.queue[next].options)]
                /\ Trace(c, LogRequest(NoLog, storage, pass.queue[next].options))
                /\ UNCHANGED <<offlineQueue, storage>>
           ELSE /\ passes' = [passes EXCEPT ![p] =
                       [pass EXCEPT !.pc = "done", !.idx = next,
                                    !.outcomes = Append(@, result)]]
                /\ calls' = [calls EXCEPT ![c] = IdleCall]
                /\ Trace(c, NoLog)
                /\ offlineQueue' = ClearedQueue(offlineQueue)
                /\ storage' = ClearPersisted(storage)
                /\ UNCHANGED replayed
        /\ UNCHANGED <<onLine, now, reloads, nCalls, nPasses, tracing, stream, health, chat, sync>>

\* (mutant) the 'offline' event drops the persisted queue
GoOffline_DropsQueue ==
    /\ ~Settled
    /\ onLine
    /\ onLine' = FALSE
    /\ storage' = ClearPersisted(storage)
    /\ UNCHANGED <<calls, passes, offlineQueue, now, reloads, nCalls, nPasses, replayed,
                   tracing, log, stream, health, chat, sync>>

\* the 'offline' event: the listener only logs
GoOffline ==
    /\ ~Settled
    /\ onLine
    /\ onLine' = FALSE
    /\ UNCHANGED <<calls, passes, offlineQueue, storage, now, reloads, nCalls, nPasses, replayed,
                   tracing, log, stream, health, chat, sync>>

\* the 'online' event: processOfflineQueue up to its first suspension
GoOnline(p) ==
    /\ ~Settled
    /\ ~onLine
    /\ passes[p].pc = "idle"
    /\ \A q \in Passes : q < p => passes[q].pc # "idle"
    /\ nPasses' = nPasses + 1
    /\ onLine' = TRUE
    /\ LET queue == PersistedQueue(storage)
       IN  IF queue = <<>>
           THEN /\ passes' = [passes EXCEPT ![p] = [@ EXCEPT !.pc = "done", !.idx = 1]]
                /\ offlineQueue' = ClearedQueue(offlineQueue)
                /\ storage' = ClearPersisted(storage)
                /\ UNCHANGED <<calls, log, replayed>>
           ELSE /\ passes' = [passes EXCEPT ![p] =
                       [@ EXCEPT !.pc = "running", !.queue = queue, !.idx = 1]]
                /\ calls' = [calls EXCEPT ![PassSlot(p)] =
                       makeRequest(queue[1].endpoint, queue[1].options)]
                /\ Trace(PassSlot(p), LogRequest(NoLog, storage, queue[1].options))
                /\ replayed' = replayed \cup {queue[1].timestamp}
                /\ UNCHANGED <<offlineQueue, storage>>
    /\ UNCHANGED <<now, reloads, nCalls, tracing, stream, health, chat, sync>>

\* logout, confirmed: the saved profile is removed (the camera and the page
\* shown are not part of this model)
Logout ==
    /\ ~Settled
    /\ storage' = [storage EXCEPT !.agri_user_profile = NoItem]
    /\ UNCHANGED <<calls, passes, offlineQueue, onLine, now, reloads, nCalls, nPasses, replayed,
                   tracing, log, stream, health, chat, sync>>

\* deleteAccount, confirmed: localStorage.clear()
DeleteAccount ==
    /\ ~Settled
    /\ storage' = EmptyStorage
    /\ UNCHANGED <<calls, passes, offlineQueue, onLine, now, reloads, nCalls, nPasses, replayed,
                   tracing, log, stream, health, chat, sync>>

\* the page is loaded again: `window.apiClient = new APIClient()` over the
\* storage the previous page load left behind
Reload ==
    /\ ~Settled
    /\ reloads < MaxReloads
    /\ reloads' = reloads + 1
    /\ calls' = [c \in Slots |-> IdleCall]
    /\ passes' = [p \in Passes |-> IdlePass]
    /\ offlineQueue' = <<>>
    /\ log' = [c \in Slots |-> NoLog]
    /\ UNCHANGED <<storage, onLine, now, nCalls, nPasses, replayed, tracing, stream, health, chat, sync>>

\* one page load
Session ==
    \/ \E r \in Requests : StartCall(r)
    \/ \E c \in Slots, status \in Statuses : FetchRespond(c, status)
    \/ \E c \in Slots, error \in FetchErrors : FetchFail(c, error)
    \/ \E c \in Slots, status \in Statuses, token \in RefreshedTokens :
          RefreshRespond(c, status, token)
    \/ \E c \in Slots : RefreshFail(c)
    \/ \E c \in Slots, status \in Statuses : RefetchRespond(c, status)
    \/ \E c \in Slots, error \in FetchErrors : RefetchFail(c, error)
    \/ \E c \in Slots : DelayElapsed(c)
    \/ PageReturn
    \/ \E access \in LoginTokens, refresh \in RefreshTokens \cup {Absent} :
          LoginStore(access, refresh)
    \/ \E p \in Passes : PassReturn(p)
    \/ GoOffline
    \/ \E p \in Passes : nPasses < MaxPasses /\ GoOnline(p)

Next == Session \/ Reload

\* The client over page loads.
Spec == Init /\ [][Next]_vars

\* The calls of the page alone, with the log of every call kept: the page
\* calls makeRequest, the server answers, the connection may drop.
InitCall ==
    /\ InitState
    /\ tracing = TRUE

CallStep ==
    \/ \E r \in Requests \cup {ReqDetection} : StartCall(r)
    \/ \E c \in Slots, status \in Statuses : FetchRespond(c, status)
    \/ \E c \in Slots, error \in FetchErrors : FetchFail(c, error)
    \/ \E c \in Slots, status \in Statuses, token \in RefreshedTokens :
          RefreshRespond(c, status, token)
    \/ \E c \in Slots : RefreshFail(c)
    \/ \E c \in Slots, status \in Statuses : RefetchRespond(c, status)
    \/ \E c \in Slots, error \in FetchErrors : RefetchFail(c, error)
    \/ \E c \in Slots : DelayElapsed(c)
    \/ PageReturn
    \/ \E access \in LoginTokens, refresh \in RefreshTokens \cup {Absent} :
          LoginStore(access, refresh)
    \/ Logout
    \/ DeleteAccount
    \/ GoOffline

SpecCall == InitCall /\ [][CallStep]_vars

\* an HTTP call of slot c ends: the fetch, the refresh call or the re-sent
\* fetch answers or rejects
HttpEnds(c) ==
    \/ \E status \in Statuses : FetchRespond(c, status)
    \/ \E error \in FetchErrors : FetchFail(c, error)
    \/ \E status \in Statuses, token \in RefreshedTokens : RefreshRespond(c, status, token)
    \/ RefreshFail(c)
    \/ \E status \in Statuses : RefetchRespond(c, status)
    \/ \E error \in FetchErrors : RefetchFail(c, error)

\* The page calls under the assumption that every HTTP call ends and that
\* the timer of every retry delay fires.
SpecCallLive ==
    /\ SpecCall
    /\ \A c \in Slots : WF_vars(HttpEnds(c)) /\ WF_vars(DelayElapsed(c))

\* The queues a page load can find in the storage: the entry a call of the
\* page load before it left there, as queueOfflineRequest wrote it.
LeftBehind ==
    {Stringify(<<[endpoint |-> r.endpoint, options |-> r.options, timestamp |-> 1]>>) :
        r \in Requests}

\* The state after `new APIClient()` on a page load that finds an offline
\* queue in the storage.
InitReplay ==
    /\ calls = [c \in Slots |-> IdleCall]
    /\ passes = [p \in Passes |-> IdlePass]
    /\ offlineQueue = <<>>
    /\ \E access \in LoginTokens \cup {NoItem}, refresh \in RefreshTokens \cup {NoItem},
          queue \in LeftBehind :
          /\ storage = [offline_queue |-> [set |-> TRUE, value |-> queue],
                        access_token |-> access, refresh_token |-> refresh,
                        agri_user_profile |-> SavedProfile]
          /\ now = Len(queue) + 1
    /\ onLine \in BOOLEAN
    /\ reloads = 0
    /\ nCalls = 0
    /\ nPasses = 0
    /\ replayed = {}
    /\ log = [c \in Slots |-> NoLog]
    /\ stream = IdleStream
    /\ health = InitHealth
    /\ chat = InitChat
    /\ sync = NoSync
    /\ tracing = FALSE

\* The replay alone: the connection comes and goes, every 'online' event
\* runs processOfflineQueue, the server answers the replayed calls.
ReplayStep ==
    \/ \E c \in Slots, status \in Statuses : FetchRespond(c, status)
    \/ \E c \in Slots, error \in FetchErrors : FetchFail(c, error)
    \/ \E c \in Slots, status \in Statuses, token \in RefreshedTokens :
          RefreshRespond(c, status, token)
    \/ \E c \in Slots : RefreshFail(c)
    \/ \E c \in Slots, status \in Statuses : RefetchRespond(c, status)
    \/ \E c \in Slots, error \in FetchErrors : RefetchFail(c, error)
    \/ \E c \in Slots : DelayElapsed(c)
    \/ \E p \in Passes : PassReturn(p)
    \/ GoOffline
    \/ \E p \in Passes : GoOnline(p)

SpecReplay == InitReplay /\ [][ReplayStep]_vars

\* the queues of MaxQueue entries an earlier page load can have left in the
\* storage (enqueued at the times 1, 2, ..)
LeftBehindMany ==
    {Stringify([i \in 1..MaxQueue |->
                   [endpoint |-> f[i].endpoint, options |-> f[i].options, timestamp |-> i]]) :
        f \in [1..MaxQueue -> Requests]}

\* The state after `new APIClient()` on a page load that finds a queue of
\* several entries in the storage.
InitPass ==
    /\ calls = [c \in Slots |-> IdleCall]
    /\ passes = [p \in Passes |-> IdlePass]
    /\ offlineQueue = <<>>
    /\ \E access \in LoginTokens \cup {NoItem}, refresh \in RefreshTokens \cup {NoItem},
          queue \in LeftBehindMany :
          /\ storage = [offline_queue |-> [set |-> TRUE, value |-> queue],
                        access_token |-> access, refresh_token |-> refresh,
                        agri_user_profile |-> SavedProfile]
          /\ now = Len(queue) + 1
    /\ onLine = FALSE
    /\ reloads = 0
    /\ nCalls = 0
    /\ nPasses = 0
    /\ replayed = {}
    /\ log = [c \in Slots |-> NoLog]
    /\ stream = IdleStream
    /\ health = InitHealth
    /\ chat = InitChat
    /\ sync = NoSync
    /\ tracing = FALSE

\* MaxPasses 'online' events, each running processOfflineQueue over the
\* queue, while the connection comes and goes and the server answers.
PassStep ==
    \/ \E c \in Slots, status \in Statuses : FetchRespond(c, status)
    \/ \E c \in Slots, error \in FetchErrors : FetchFail(c, error)
    \/ \E c \in Slots, status \in Statuses, token \in RefreshedTokens :
          RefreshRespond(c, status, token)
    \/ \E c \in Slots : RefreshFail(c)
    \/ \E c \in Slots, status \in Statuses : RefetchRespond(c, status)
    \/ \E c \in Slots, error \in FetchErrors : RefetchFail(c, error)
    \/ \E c \in Slots : DelayElapsed(c)
    \/ \E p \in Passes : PassReturn(p)
    \/ GoOffline
    \/ \E p \in Passes : nPasses < MaxPasses /\ GoOnline(p)

SpecPass == InitPass /\ [][PassStep]_vars

\* the fetch of a decode loop has answered 2xx: response.body.getReader()
StartStream(decoder) ==
    /\ stream.pc = "idle"
    /\ stream' = [IdleStream EXCEPT !.decoder = decoder, !.pc = "reading"]
    /\ UNCHANGED <<calls, passes, offlineQueue, storage, onLine, now, reloads, nCalls, nPasses,
                   replayed, tracing, log, health, chat, sync>>

\* `await reader.read()` yields a chunk: it is decoded, split and its lines
\* are handled.  The transport cuts the stream where it likes: the chunk may
\* end inside a line, and the next chunk then starts with the rest of it.
ReadChunk(decoder, lines, head) ==
    LET chunk == Chunk(stream.cut, lines, head)
        n == stream.nLines + Len(lines) + (IF head # NoEnvelope THEN 1 ELSE 0)
    IN  /\ stream.pc = "reading"
        /\ stream.decoder = decoder
        /\ chunk # <<>>
        /\ n <= MaxLines
        /\ stream' = [stream EXCEPT !.d = DecodeChunk(stream.decoder, @, chunk),
                                    !.received = Append(@, chunk),
                                    !.cut = head,
                                    !.nLines = n]
        /\ UNCHANGED <<calls, passes, offlineQueue, storage, onLine, now, reloads, nCalls,
                       nPasses, replayed, tracing, log, health, chat, sync>>

\* `await reader.read()` yields done: the loop ends
ReadDone ==
    /\ stream.pc = "reading"
    /\ stream' = [stream EXCEPT !.pc = "done"]
    /\ UNCHANGED <<calls, passes, offlineQueue, storage, onLine, now, reloads, nCalls, nPasses,
                   replayed, tracing, log, health, chat, sync>>

\* A page that reads one response stream.
InitStream ==
    /\ calls = [c \in Slots |-> IdleCall]
    /\ passes = [p \in Passes |-> IdlePass]
    /\ offlineQueue = <<>>
    /\ storage = EmptyStorage
    /\ onLine = TRUE
    /\ now = 1
    /\ reloads = 0
    /\ nCalls = 0
    /\ nPasses = 0
    /\ replayed = {}
    /\ log = [c \in Slots |-> NoLog]
    /\ tracing = FALSE
    /\ stream = IdleStream
    /\ health = InitHealth
    /\ chat = InitChat
    /\ sync = NoSync

StreamStep ==
    \/ \E decoder \in {"query", "chat"} : StartStream(decoder)
    \/ \E decoder \in {"query", "chat"} :
          \E lines \in UNION {[1..n -> LineTokens(decoder)] :
                                  n \in 0..(MaxLines - stream.nLines)},
             head \in Envelopes(decoder) \cup {NoEnvelope} :
             ReadChunk(decoder, lines, head)
    \/ ReadDone

SpecStream == InitStream /\ [][StreamStep]_vars

\* checkBackendStatus() is called: the timer is armed and the fetch sent
StartProbe(p) ==
    /\ health.probes[p].pc = "idle"
    /\ health' = [health EXCEPT !.probes[p].pc = "fetch"]
    /\ UNCHANGED <<calls, passes, offlineQueue, storage, onLine, now, reloads, nCalls, nPasses,
                   replayed, tracing, log, stream, chat, sync>>

\* the fetch of /health resolves with a response: clearTimeout, then
\* response.ok decides
ProbeRespond(p, status) ==
    /\ health.probes[p].pc = "fetch"
    /\ health' = IF Ok(status)
                 THEN [health EXCEPT !.probes[p].pc = "json", !.probes[p].status = status]
                 ELSE Finish([health EXCEPT !.probes[p].status = status], p, FALSE, "status")
    /\ UNCHANGED <<calls, passes, offlineQueue, storage, onLine, now, reloads, nCalls, nPasses,
                   replayed, tracing, log, stream, chat, sync>>

\* the fetch rejects: the backend cannot be reached
ProbeFail(p) ==
    /\ health.probes[p].pc = "fetch"
    /\ health' = Finish(health, p, FALSE, "network")
    /\ UNCHANGED <<calls, passes, offlineQueue, storage, onLine, now, reloads, nCalls, nPasses,
                   replayed, tracing, log, stream, chat, sync>>

\* the 3 s timer fires before the fetch has resolved: controller.abort()
\* rejects the fetch with an AbortError
ProbeAbort(p) ==
    /\ health.probes[p].pc = "fetch"
    /\ health' = Finish(health, p, FALSE, "abort")
    /\ UNCHANGED <<calls, passes, offlineQueue, storage, onLine, now, reloads, nCalls, nPasses,
                   replayed, tracing, log, stream, chat, sync>>

\* response.json() of a 2xx response settles: with the data, or with a
\* SyntaxError when the body is not JSON
ProbeBody(p, parsed) ==
    /\ health.probes[p].pc = "json"
    /\ health' = Finish(health, p, parsed, IF parsed THEN "ok" ELSE "body")
    /\ UNCHANGED <<calls, passes, offlineQueue, storage, onLine, now, reloads, nCalls, nPasses,
                   replayed, tracing, log, stream, chat, sync>>

\* A page whose Ask Community view is opened up to MaxProbes times.
InitHealthPage ==
    /\ calls = [c \in Slots |-> IdleCall]
    /\ passes = [p \in Passes |-> IdlePass]
    /\ offlineQueue = <<>>
    /\ storage = EmptyStorage
    /\ onLine = TRUE
    /\ now = 1
    /\ reloads = 0
    /\ nCalls = 0
    /\ nPasses = 0
    /\ replayed = {}
    /\ log = [c \in Slots |-> NoLog]
    /\ tracing = FALSE
    /\ stream = IdleStream
    /\ health = InitHealth
    /\ chat = InitChat
    /\ sync = NoSync

HealthStep ==
    \/ \E p \in Probes : StartProbe(p)
    \/ \E p \in Probes, status \in Statuses : ProbeRespond(p, status)
    \/ \E p \in Probes : ProbeFail(p)
    \/ \E p \in Probes : ProbeAbort(p)
    \/ \E p \in Probes, parsed \in BOOLEAN : ProbeBody(p, parsed)

SpecHealth == InitHealthPage /\ [][HealthStep]_vars

\* the user submits message k (form submit, Enter key or quick message):
\* handleChatSubmit returns at once while isTyping, and otherwise runs
\* sendChatMessage up to its fetch
ChatSubmit(k) ==
    /\ chat.calls[k].pc = "idle"
    /\ \A j \in Chats : j < k => chat.calls[j].pc # "idle"
    /\ chat' = IF SubmitAccepted(chat.isTyping)
               THEN [chat EXCEPT !.isTyping = TRUE, !.calls[k].pc = "fetch"]
               ELSE [chat EXCEPT !.refused = 1]
    /\ UNCHANGED <<calls, passes, offlineQueue, storage, onLine, now, reloads, nCalls, nPasses,
                   replayed, tracing, log, stream, health, sync>>

\* the POST /chatbot/message answers: a non-2xx throws 'Failed to send message'
ChatRespond(k, status) ==
    /\ chat.calls[k].pc = "fetch"
    /\ chat' = IF Ok(status)
               THEN [chat EXCEPT !.calls[k].pc = "reading"]
               ELSE EndChat(chat, k, "status")
    /\ UNCHANGED <<calls, passes, offlineQueue, storage, onLine, now, reloads, nCalls, nPasses,
                   replayed, tracing, log, stream, health, sync>>

\* the fetch rejects, or the read of the body does: a transport error
ChatFail(k) ==
    /\ chat.calls[k].pc \in {"fetch", "reading"}
    /\ chat' = EndChat(chat, k, "network")
    /\ UNCHANGED <<calls, passes, offlineQueue, storage, onLine, now, reloads, nCalls, nPasses,
                   replayed, tracing, log, stream, health, sync>>

\* AbortSignal.timeout(30000) fires: the fetch, or the read of the body,
\* rejects with a TimeoutError
ChatAbort(k) ==
    /\ chat.calls[k].pc \in {"fetch", "reading"}
    /\ chat' = EndChat(chat, k, "abort")
    /\ UNCHANGED <<calls, passes, offlineQueue, storage, onLine, now, reloads, nCalls, nPasses,
                   replayed, tracing, log, stream, health, sync>>

\* reader.read() yields a chunk, decoded into the call's botResponse
ChatChunk(k) ==
    /\ chat.calls[k].pc = "reading"
    /\ chat.calls[k].chunks < MaxLines
    /\ chat' = [chat EXCEPT !.calls[k].chunks = @ + 1]
    /\ UNCHANGED <<calls, passes, offlineQueue, storage, onLine, now, reloads, nCalls, nPasses,
                   replayed, tracing, log, stream, health, sync>>

\* reader.read() yields done
ChatDone(k) ==
    /\ chat.calls[k].pc = "reading"
    /\ chat' = EndChat(chat, k, "exhausted")
    /\ UNCHANGED <<calls, passes, offlineQueue, storage, onLine, now, reloads, nCalls, nPasses,
                   replayed, tracing, log, stream, health, sync>>

\* A page on which the user chats.
InitChatPage ==
    /\ calls = [c \in Slots |-> IdleCall]
    /\ passes = [p \in Passes |-> IdlePass]
    /\ offlineQueue = <<>>
    /\ storage = EmptyStorage
    /\ onLine = TRUE
    /\ now = 1
    /\ reloads = 0
    /\ nCalls = 0
    /\ nPasses = 0
    /\ replayed = {}
    /\ log = [c \in Slots |-> NoLog]
    /\ tracing = FALSE
    /\ stream = IdleStream
    /\ health = InitHealth
    /\ chat = InitChat
    /\ sync = NoSync

ChatStep ==
    \/ \E k \in Chats : ChatSubmit(k)
    \/ \E k \in Chats, status \in Statuses : ChatRespond(k, status)
    \/ \E k \in Chats : ChatFail(k)
    \/ \E k \in Chats : ChatAbort(k)
    \/ \E k \in Chats : ChatChunk(k)
    \/ \E k \in Chats : ChatDone(k)

SpecChat == InitChatPage /\ [][ChatStep]_vars

\* DOMContentLoaded: initializeOfflineSupport()
AppStart ==
    /\ sync.pc = "boot"
    /\ sync' = initializeOfflineSupport(sync, onLine)
    /\ UNCHANGED <<calls, passes, offlineQueue, storage, onLine, now, reloads, nCalls, nPasses,
                   replayed, tracing, log, stream, health, chat>>

\* the 'online' event of the window: handleOnline
SyncOnline ==
    /\ sync.pc = "running"
    /\ ~onLine
    /\ Len(sync.timers) < MaxSyncs
    /\ onLine' = TRUE
    /\ sync' = handleOnline(sync)
    /\ UNCHANGED <<calls, passes, offlineQueue, storage, now, reloads, nCalls, nPasses,
                   replayed, tracing, log, stream, health, chat>>

\* the 'offline' event of the window: handleOffline
SyncOffline ==
    /\ sync.pc = "running"
    /\ onLine
    /\ onLine' = FALSE
    /\ sync' = handleOffline(sync)
    /\ UNCHANGED <<calls, passes, offlineQueue, storage, now, reloads, nCalls, nPasses,
                   replayed, tracing, log, stream, health, chat>>

\* the user asks for a connection check: checkConnection runs
\* updateNetworkStatus on the present navigator.onLine (a check that
\* changes nothing is no step)
CheckConnection ==
    /\ sync.pc = "running"
    /\ Len(sync.timers) < MaxSyncs
    /\ sync' = updateNetworkStatus(sync, onLine)
    /\ sync' # sync
    /\ UNCHANGED <<calls, passes, offlineQueue, storage, onLine, now, reloads, nCalls, nPasses,
                   replayed, tracing, log, stream, health, chat>>

\* the next timer of the i-th processOfflineQueue call fires
TimerFires(i) ==
    /\ i \in 1..Len(sync.timers)
    /\ sync.timers[i].next < sync.timers[i].n
    /\ sync' = [TimerBody(sync, sync.timers[i].next) EXCEPT !.timers[i].next = @ + 1]
    /\ UNCHANGED <<calls, passes, offlineQueue, storage, onLine, now, reloads, nCalls, nPasses,
                   replayed, tracing, log, stream, health, chat>>

\* a detection is saved while AppState.isOffline: it is pushed to the
\* queue, and the queue is saved
SaveDetection ==
    /\ sync.pc = "running"
    /\ sync.isOffline
    /\ sync.nItems < MaxItems
    /\ sync' = saveOfflineQueue([sync EXCEPT !.queue = Append(@, sync.nItems + 1),
                                             !.nItems = @ + 1,
                                             !.added = TRUE])
    /\ UNCHANGED <<calls, passes, offlineQueue, storage, onLine, now, reloads, nCalls, nPasses,
                   replayed, tracing, log, stream, health, chat>>

\* the sync queues an earlier page load can have left in the storage
StoredQueues ==
    {[set |-> FALSE, value |-> <<>>]}
    \cup {[set |-> TRUE, value |-> [i \in 1..n |-> i]] : n \in 0..MaxItems}

\* The application before DOMContentLoaded.
InitSyncPage ==
    /\ calls = [c \in Slots |-> IdleCall]
    /\ passes = [p \in Passes |-> IdlePass]
    /\ offlineQueue = <<>>
    /\ storage = EmptyStorage
    /\ onLine \in BOOLEAN
    /\ now = 1
    /\ reloads = 0
    /\ nCalls = 0
    /\ nPasses = 0
    /\ replayed = {}
    /\ log = [c \in Slots |-> NoLog]
    /\ tracing = FALSE
    /\ stream = IdleStream
    /\ health = InitHealth
    /\ chat = InitChat
    /\ \E stored \in StoredQueues :
          sync = [NoSync EXCEPT !.stored = stored, !.nItems = Len(stored.value)]

SyncStep ==
    \/ AppStart
    \/ SyncOnline
    \/ SyncOffline
    \/ CheckConnection
    \/ \E i \in 1..MaxSyncs : TimerFires(i)
    \/ SaveDetection

SpecSync == InitSyncPage /\ [][SyncStep]_vars

\* ------------------------------------------------------------------ claims
Last(seq) == seq[Len(seq)]
Is2xx(res) == res.t = "resp" /\ res.status >= 200 /\ res.status <= 299
IsResp5xx(res) == res.t = "resp" /\ res.status >= 500 /\ res.status <= 599
InFlight(c) == calls[c].pc \in {"fetch", "refresh", "refetch"}

\* C1: when the first call of request of a makeRequest call returns a 2xx
\* response, makeRequest settles at once with that response, having called
\* request once, and neither the in-memory queue nor the persisted
\* 'offline_queue' changes.
C1_FirstAttemptSuccess ==
    [][\A c \in Slots :
          (log[c].results = <<>> /\ Len(log'[c].results) = 1 /\ Is2xx(log'[c].results[1]))
          => /\ calls'[c].pc = "done"
             /\ calls'[c].outcome =
                   [kind |-> "response", status |-> log'[c].results[1].status, error |-> NoError]
             /\ log'[c].nRequest = 1
             /\ offlineQueue' = offlineQueue
             /\ storage'.offline_queue = storage.offline_queue]_vars

C1_Witness ==
    \E c \in Slots :
        /\ calls[c].pc = "done"
        /\ calls[c].outcome.kind = "response"
        /\ Len(log[c].results) = 1
        /\ log[c].nRequest = 1

\* C2: a makeRequest call whose first two calls of request end in a 5xx
\* response goes on to a third after one delay each, and when the third
\* returns 2xx the call ends there: three calls of request, two delays, the
\* third response handed to the caller, nothing enqueued.
C2_TwoFailuresThenSuccess ==
    \A c \in Slots :
        LET results == log[c].results
        IN  /\ (Len(results) \in {1, 2} /\ \A i \in 1..Len(results) : IsResp5xx(results[i]))
               => /\ calls[c].pc \in {"delay", "fetch", "refresh", "refetch"}
                  /\ log[c].nDelay = Len(results)
            /\ (Len(results) = 3 /\ IsResp5xx(results[1]) /\ IsResp5xx(results[2])
                  /\ Is2xx(results[3]))
               => /\ calls[c].pc = "done"
                  /\ log[c].nRequest = 3
                  /\ log[c].nDelay = 2
                  /\ calls[c].outcome =
                        [kind |-> "response", status |-> results[3].status, error |-> NoError]
                  /\ ~calls[c].queued

C2_Witness ==
    \E c \in Slots :
        /\ calls[c].pc = "done"
        /\ Len(log[c].results) = 3
        /\ IsResp5xx(log[c].results[1]) /\ IsResp5xx(log[c].results[2])
        /\ Is2xx(log[c].results[3])
        /\ calls[c].outcome.kind = "response"

\* the call in slot c settles with an error in this step
GivesUp(c) == InFlight(c) /\ calls'[c].pc = "done" /\ calls'[c].outcome.kind = "error"
QueueUnchanged == offlineQueue' = offlineQueue /\ storage'.offline_queue = storage.offline_queue
\* the queue entry of the call in slot c
EntryOf(c) ==
    [endpoint |-> calls[c].endpoint, options |-> calls[c].options, timestamp |-> now]

\* C3 (as claimed): when the third attempt fails while the client is
\* offline, the persisted queue is the one persisted before plus one entry
\* with the endpoint and the options of the call, and the caller gets the
\* 'Request queued for when online' error.
C3_QueuedWhenExhaustedOffline ==
    [][\A c \in Slots :
          (GivesUp(c) /\ calls[c].attempt = retryAttempts /\ ~onLine)
          => LET before == PersistedQueue(storage)
                 after == PersistedQueue(storage')
             IN  /\ Len(after) = Len(before) + 1
                 /\ SubSeq(after, 1, Len(before)) = before
                 /\ Last(after).endpoint = calls[c].endpoint
                 /\ Last(after).options = calls[c].options
                 /\ calls'[c].outcome.error = QueuedError]_vars

\* C4 (as claimed): when a replay pass ends, the persisted queue holds the
\* entries of the pass whose replay failed, in their order, and no other.
FailedEntries(pass) ==
    LET F[i \in 0..Len(pass.queue)] ==
            IF i = 0 THEN <<>>
            ELSE IF pass.outcomes[i] = "failed" THEN Append(F[i - 1], pass.queue[i])
            ELSE F[i - 1]
    IN  F[Len(pass.queue)]

PassEnds(p) == passes[p].pc # "done" /\ passes'[p].pc = "done"

C4_FailedEntriesRemain ==
    [][\A p \in Passes :
          PassEnds(p) => PersistedQueue(storage') = FailedEntries(passes'[p])]_vars

\* C4 (amended): when a replay pass ends, the persisted queue and the
\* in-memory queue are empty: every entry is gone, the entries whose replay
\* failed included.
C4_QueueEmptyAfterPass ==
    [][\A p \in Passes :
          PassEnds(p) => /\ ~storage'.offline_queue.set
                         /\ PersistedQueue(storage') = <<>>
                         /\ offlineQueue' = <<>>]_vars

C4_Witness ==
    \E p \in Passes :
        /\ passes[p].pc = "done"
        /\ \E i \in 1..Len(passes[p].outcomes) : passes[p].outcomes[i] = "failed"
        /\ PersistedQueue(storage) = <<>>

\* C5: after a 401 and a successful refresh the new access token is in the
\* storage when the call is sent again, the call is sent again once, after
\* one refresh, with the new token; what the second send returns or throws
\* is what request hands to makeRequest, a 401 included: no second refresh
\* and no redirect.
C5_RefreshThenRetryOnce ==
    [][\A c \in Slots :
          /\ (calls[c].pc = "refresh" /\ calls'[c].pc = "refetch")
             => /\ log'[c].refreshed \in RefreshedTokens
                /\ storage'.access_token = log'[c].refreshed
                /\ log'[c].sentAuth = Bearer(log'[c].refreshed)
                /\ log'[c].rRefresh = 1
                /\ log'[c].rFetch = 2
          /\ (calls[c].pc = "refetch" /\ calls'[c].pc # "refetch")
             => /\ calls'[c].pc \in {"delay", "done"}
                /\ Len(log'[c].results) = Len(log[c].results) + 1
                /\ Last(log'[c].results).t \in {"resp", "throw"}
                /\ log'[c].rRefresh = 1
                /\ log'[c].rFetch = 2
                /\ log'[c].nRedirect = log[c].nRedirect]_vars

C5_Witness ==
    \E c \in Slots :
        /\ calls[c].pc = "done"
        /\ log[c].refreshed \in RefreshedTokens
        /\ Last(log[c].results) = Resp(401)
        /\ log[c].rRefresh = 1
        /\ log[c].rFetch = 2
        /\ log[c].nRedirect = 0

\* C6: a refresh call is made only with a refresh token in the storage;
\* without one, or when the refresh call fails, request signals the redirect
\* once and sends nothing more, and makeRequest ends with an error without
\* another attempt.
C6_NoRetryAfterFailedRefresh ==
    [][\A c \in Slots :
          /\ (calls[c].pc = "fetch" /\ calls'[c].pc = "refresh") => HasRefreshToken(storage)
          /\ (calls[c].pc = "refresh" /\ calls'[c].pc \notin {"refresh", "refetch"})
             => log'[c].nRedirect = log[c].nRedirect + 1
          /\ (log'[c].nRedirect > log[c].nRedirect)
             => /\ calls[c].pc = "refresh" \/ ~HasRefreshToken(storage)
                /\ calls'[c].pc = "done"
                /\ calls'[c].outcome.kind = "error"
                /\ log'[c].nRedirect = 1
                /\ log'[c].rFetch = 1
                /\ log'[c].nFetch = log[c].nFetch
                /\ log'[c].nRequest = log[c].nRequest
                /\ Last(log'[c].results) = Undefined]_vars

C6_Witness ==
    \E c \in Slots :
        /\ calls[c].pc = "done"
        /\ log[c].nRedirect = 1
        /\ log[c].rRefresh = 1
        /\ log[c].rFetch = 1

\* result i of the call in slot c was followed by another attempt
Retried(c, i) == i < Len(log[c].results) \/ (i = Len(log[c].results) /\ calls[c].pc = "delay")

\* C7: a makeRequest call calls request at most retryAttempts (3) times, and
\* every result that is followed by another attempt is an error that
\* shouldRetry accepts, on an attempt before the third.
C7_BoundedRetry ==
    \A c \in Slots :
        /\ log[c].nRequest <= retryAttempts
        /\ \A i \in 1..Len(log[c].results) :
              Retried(c, i) => /\ i < retryAttempts
                               /\ ~Is2xx(log[c].results[i])
                               /\ shouldRetry(CaughtError(log[c].results[i]))

C7_Witness ==
    \E c \in Slots :
        /\ calls[c].pc = "done"
        /\ log[c].nRequest = retryAttempts
        /\ calls[c].outcome.kind = "error"
        /\ shouldRetry(calls[c].caught)

\* C8 (as claimed): a non-2xx response is followed by another attempt if and
\* only if its status is 5xx and attempts remain.
C8_RetryIff5xx ==
    \A c \in Slots :
        \A i \in 1..Len(log[c].results) :
            (log[c].results[i].t = "resp" /\ ~Is2xx(log[c].results[i]))
            => (Retried(c, i) <=> (IsResp5xx(log[c].results[i]) /\ i < retryAttempts))

\* C9 (as claimed): makeRequest enqueues only when the third attempt has
\* failed and the client is offline; in every other failure the caller gets
\* the error of the last attempt and the queue is as it was.
C9_QueuedOnlyWhenExhausted ==
    [][\A c \in Slots :
          GivesUp(c)
          => IF ~onLine /\ calls[c].attempt = retryAttempts
             THEN /\ offlineQueue' = Append(offlineQueue, EntryOf(c))
                  /\ calls'[c].outcome.error = QueuedError
             ELSE /\ QueueUnchanged
                  /\ calls'[c].outcome.error = calls'[c].caught]_vars

\* C9 (amended): makeRequest enqueues exactly when it gives up, on the third
\* attempt or earlier on an error that is not retried, while the client is
\* offline: the entry is appended in memory, the whole queue is persisted
\* and the caller gets the 'queued' error.  When it gives up while online
\* the caller gets the error of the last attempt and the queue is as it was;
\* a retry or a response leaves the queue as it was too.
C9_QueuedWhenGivingUpOffline ==
    [][\A c \in Slots :
          /\ GivesUp(c)
             => IF ~onLine
                THEN /\ offlineQueue' = Append(offlineQueue, EntryOf(c))
                     /\ storage'.offline_queue = [set |-> TRUE, value |-> Stringify(offlineQueue')]
                     /\ calls'[c].outcome.error = QueuedError
                ELSE /\ QueueUnchanged
                     /\ calls'[c].outcome.error = calls'[c].caught
                     /\ calls'[c].caught # QueuedError
          /\ (InFlight(c) /\ calls'[c] # calls[c] /\ calls'[c].pc # "idle" /\ ~GivesUp(c))
             => QueueUnchanged]_vars

C9_Witness ==
    \E c \in Slots :
        /\ calls[c].pc = "done"
        /\ calls[c].attempt < retryAttempts
        /\ calls[c].outcome.error = QueuedError
        /\ ~shouldRetry(calls[c].caught)
        /\ ~onLine
        /\ Len(PersistedQueue(storage)) > 0

\* C10 (as claimed): an entry leaves the persisted queue only after a replay
\* pass has called makeRequest for it.
Range(seq) == {seq[i] : i \in 1..Len(seq)}

C10_RemovedOnlyAfterReplay ==
    [][\A e \in Range(PersistedQueue(storage)) :
          e \notin Range(PersistedQueue(storage')) => e.timestamp \in replayed']_vars

\* the timestamps of a queue, in its order
Timestamps(queue) == [i \in 1..Len(queue) |-> queue[i].timestamp]

\* C11 (as claimed): whenever a client enqueues a request, the entries that
\* were in the persisted queue are still there, in their order, with the new
\* entry after them; also on a page load that found them in the storage.
C11_QueueSurvivesRestart ==
    [][Len(offlineQueue') > Len(offlineQueue)
       => LET before == Timestamps(PersistedQueue(storage))
              after == Timestamps(PersistedQueue(storage'))
          IN  after = Append(before, now)]_vars

\* C12 (as claimed): at no moment are the replayed calls of two entries in
\* progress, also when an 'online' event fires while a pass is running.
C12_OneReplayAtATime ==
    Cardinality({c \in PassSlots : calls[c].pc # "idle"}) <= 1

\* C13: an 'online' event runs processOfflineQueue on the queue found in
\* the storage at that moment: the call of its first entry is started (an
\* empty queue ends the pass at once), whether or not another pass is
\* running; an 'offline' event leaves the queue in memory, the storage, the
\* calls in progress and the passes as they are.
C13_ConnectivityEvents ==
    [][/\ (onLine /\ ~onLine')
          => /\ calls' = calls
             /\ passes' = passes
             /\ offlineQueue' = offlineQueue
             /\ storage' = storage
       /\ (~onLine /\ onLine')
          => \E p \in Passes :
                /\ passes[p].pc = "idle"
                /\ IF storage.offline_queue.set /\ storage.offline_queue.value # <<>>
                   THEN /\ passes'[p].pc = "running"
                        /\ passes'[p].queue = storage.offline_queue.value
                        /\ passes'[p].idx = 1
                        /\ calls'[PassSlot(p)].pc = "fetch"
                        /\ calls'[PassSlot(p)].attempt = 1
                        /\ calls'[PassSlot(p)].endpoint = storage.offline_queue.value[1].endpoint
                        /\ calls'[PassSlot(p)].options = storage.offline_queue.value[1].options
                   ELSE passes'[p].pc = "done"]_vars

C13_Witness ==
    \E p \in Passes :
        /\ passes[p].pc = "running"
        /\ InFlight(PassSlot(p))
        /\ ~onLine
        /\ PersistedQueue(storage) = passes[p].queue

\* C14 (as claimed): every fetch that request issues for a call while the
\* storage holds an access token carries `Authorization: Bearer <token>`,
\* whatever headers the caller passed.
C14_AlwaysAuthorized ==
    [][\A c \in Slots :
          (log'[c].nFetch > log[c].nFetch /\ storage'.access_token # NoItem)
          => log'[c].sentAuth = Bearer(storage'.access_token)]_vars

\* C15: getHeaders returns the JSON content type in every case, with the
\* Authorization header `Bearer <token>` of the access token in the storage
\* when there is one and with no Authorization header when there is none.
C15_GetHeaders ==
    /\ getHeaders(storage).ContentType = "application/json"
    /\ storage.access_token # NoItem
       => getHeaders(storage).Authorization = Bearer(storage.access_token)
    /\ storage.access_token = NoItem
       => getHeaders(storage).Authorization = NoHeader

C15_Witness ==
    \E c \in Slots :
        /\ calls[c].pc = "refetch"
        /\ storage.access_token \in RefreshedTokens
        /\ log[c].sentAuth = Bearer(storage.access_token)

\* C16 (as claimed): when request signals the redirect after a failed
\* refresh, neither the access token nor the refresh token is in the storage.
C16_TokensDiscarded ==
    [][\A c \in Slots :
          log'[c].nRedirect > log[c].nRedirect
          => /\ storage'.access_token = NoItem
             /\ storage'.refresh_token = NoItem]_vars

\* C17 (as claimed): after logout, and after deleteAccount, neither the
\* access token nor the refresh token is in the storage.
C17_TokensClearedOnLogout ==
    [][(Logout \/ DeleteAccount)
       => /\ storage'.access_token = NoItem
          /\ storage'.refresh_token = NoItem]_vars

\* C18: every call that is answered 401 while a refresh token is stored
\* issues its own refresh call, whatever the other calls are doing (a
\* refresh of their own included); a refresh call starts and ends without
\* touching the other calls and leaves the refresh token in the storage, so
\* every refresh is made with the same refresh token.
C18_RefreshNotDeduplicated ==
    [][\A c \in Slots :
          /\ (FetchRespond(c, 401) /\ storage.refresh_token # NoItem)
             => /\ calls'[c].pc = "refresh"
                /\ storage' = storage
                /\ \A d \in Slots \ {c} : calls'[d] = calls[d]
          /\ (calls[c].pc = "refresh" /\ calls'[c].pc # "refresh")
             => /\ storage'.refresh_token = storage.refresh_token
                /\ \A d \in Slots \ {c} : calls'[d] = calls[d]]_vars

C18_Witness ==
    \E c, d \in Slots :
        /\ c # d
        /\ calls[c].pc = "refresh"
        /\ calls[d].pc = "refresh"
        /\ storage.refresh_token \in RefreshTokens

\* ------------------------------------------------------------------ C19
\* the text of the stream read so far, chunk after chunk
Flat(received) ==
    LET F[i \in 0..Len(received)] == IF i = 0 THEN <<>> ELSE F[i - 1] \o received[i]
    IN  F[Len(received)]

IsFragment(e) ==
    TruthyText(e.generated_answer_chunk) \/ TruthyText(e.response_chunk)
HasAnswer(e) == TruthyText(e.generated_answer) \/ TruthyText(e.response)
IsCompletion(e) == e.status = StatusComplete /\ HasAnswer(e)
FragmentText(e) ==
    IF TruthyText(e.generated_answer_chunk) THEN e.generated_answer_chunk
    ELSE IF TruthyText(e.response_chunk) THEN e.response_chunk
    ELSE <<>>

\* the fragments of a text of whole lines, concatenated in arrival order
Concatenation(toks) ==
    LET F[i \in 0..Len(toks)] ==
            IF i = 0 THEN <<>>
            ELSE IF toks[i].k = "json" THEN F[i - 1] \o FragmentText(toks[i].e)
            ELSE F[i - 1]
    IN  F[Len(toks)]

\* The stream has ended; every chunk ended on a line boundary (no line was
\* cut), every line is a status, a fragment or a completion envelope, and
\* the one completion envelope is the last line.
SimpleStream ==
    LET toks == Flat(stream.received)
        n == Len(toks)
    IN  /\ stream.pc = "done"
        /\ n >= 2 /\ n % 2 = 0
        /\ \A i \in 1..n :
              IF i % 2 = 0 THEN toks[i].k = "nl"
              ELSE /\ toks[i].k = "json"
                   /\ ~TruthyText(toks[i].e.error)
                   /\ (toks[i].e.status = StatusComplete) = HasAnswer(toks[i].e)
                   /\ IsCompletion(toks[i].e) <=> i = n - 1

\* C19 as stated: for a stream whose chunks end on line boundaries and that
\* consists of status envelopes, answer fragments and one final completion
\* envelope, the accumulator at the end of the stream is the concatenation
\* of the fragments in arrival order, and exactly one completion event has
\* fired.  Violated by sendChatMessage, whose completion envelope replaces
\* botResponse by the envelope's response.
C19_AccumulatorIsConcatenation ==
    SimpleStream =>
        /\ stream.d.acc = Concatenation(Flat(stream.received))
        /\ stream.d.completions = 1

\* C19, amended: for such a stream exactly one completion event fires; the
\* accumulator of the query decoder (fullAnswer) is the concatenation of the
\* fragments in arrival order, and the accumulator of the chat decoder
\* (botResponse) is the response text of the completion envelope.
C19_AccumulatorAtEndOfStream ==
    SimpleStream =>
        LET toks == Flat(stream.received)
            last == toks[Len(toks) - 1].e
        IN  /\ stream.d.completions = 1
            /\ stream.decoder = "query"
                  => stream.d.acc = Concatenation(toks)
            /\ stream.decoder = "chat" => stream.d.acc = last.response

\* a chat stream of two chunks, fragment then completion, has ended: the
\* accumulator is the completion's response and not the one fragment
C19_Witness ==
    /\ SimpleStream
    /\ stream.decoder = "chat"
    /\ Len(stream.received) = 2
    /\ stream.d.updates = 1
    /\ stream.d.acc # Concatenation(Flat(stream.received))

\* ------------------------------------------------------------------ C20
WellFormed(line) == Parse(line).ok

\* what the loop would have done with the chunks read so far, had they come
\* without their lines that are not valid JSON
WithoutMalformed(decoder, received) ==
    LET F[i \in 0..Len(received)] ==
            IF i = 0 THEN NewDecoder
            ELSE DecodeLines(decoder, F[i - 1],
                     SelectSeq(SelectSeq(Split(received[i]), NonBlank), WellFormed))
    IN  F[Len(received)]

\* C20: a line that is not valid JSON is skipped without ending the decode
\* loop.  The accumulator and the events of the well-formed lines (status
\* and answer updates, completions, errors shown) are those of the same
\* stream without its malformed lines, in the same chunk and in later
\* chunks; the parse failure is only logged, never shown, and it does not
\* end the reading of the stream.
C20_MalformedLineSkipped ==
    stream.pc # "idle" =>
        LET clean == WithoutMalformed(stream.decoder, stream.received)
        IN  /\ stream.d = [clean EXCEPT !.logged = stream.d.logged]
            /\ stream.d.shown = clean.shown
            /\ stream.d.logged >= clean.logged

\* a chunk with a malformed line between two answer fragments has been
\* read and the loop is waiting for the next chunk: both fragments were
\* appended, the failure was logged once, nothing was shown as an error
C20_Witness ==
    /\ stream.pc = "reading"
    /\ Len(stream.received) = 1
    /\ LET lines == Split(stream.received[1])
       IN  /\ Len(lines) = 4
           /\ WellFormed(lines[1]) /\ IsFragment(Parse(lines[1]).data)
           /\ lines[2] = <<Tok("text", NoEnvelope)>>
           /\ WellFormed(lines[3]) /\ IsFragment(Parse(lines[3]).data)
    /\ stream.d.updates = 2
    /\ stream.d.logged = 1
    /\ stream.d.shown = 0

\* ------------------------------------------------------------------ C21
\* the non-blank lines of a chunk
Lines(chunk) == SelectSeq(Split(chunk), NonBlank)

IsError(line) == WellFormed(line) /\ TruthyText(Parse(line).data.error)

\* the lines of a chunk the loop gets to: all of them in the query loop, the
\* lines up to the first `break` in the chat loop
ProcessedLines(decoder, chunk) ==
    LET lines == Lines(chunk)
        Breaks(i) == /\ decoder = "chat"
                     /\ WellFormed(lines[i])
                     /\ ChatEnvelope(NewDecoder, Parse(lines[i]).data).brk
        stops == {i \in 1..Len(lines) : Breaks(i)}
    IN  IF stops = {} THEN lines
        ELSE SubSeq(lines, 1, CHOOSE i \in stops : \A j \in stops : i <= j)

ErrorProcessed(decoder, received) ==
    \E i \in 1..Len(received) :
        \E j \in 1..Len(ProcessedLines(decoder, received[i])) :
            IsError(ProcessedLines(decoder, received[i])[j])

\* the lines before the first error envelope (all of them if there is none)
BeforeError(lines) ==
    LET errs == {i \in 1..Len(lines) : IsError(lines[i])}
    IN  IF errs = {} THEN lines
        ELSE SubSeq(lines, 1, (CHOOSE i \in errs : \A j \in errs : i <= j) - 1)

\* C21 as stated: once the decoder has processed an envelope with an error
\* field, the error has been shown to the user, and no later fragment of the
\* stream is appended to the accumulator: a chunk read after the error
\* leaves the accumulator as it is, and the chunk that brings the error
\* changes it only by the lines before the error.  Violated by both loops.
C21_ErrorStopsAccumulating ==
    [][stream'.received # stream.received =>
         LET decoder == stream.decoder
             chunk == stream'.received[Len(stream'.received)]
         IN  /\ ErrorProcessed(decoder, stream'.received) => stream'.d.shown >= 1
             /\ IF ErrorProcessed(decoder, stream.received)
                THEN stream'.d.acc = stream.d.acc
                ELSE stream'.d.acc =
                       DecodeLines(decoder, stream.d, BeforeError(Lines(chunk))).acc]_vars

\* the two halves of C21, one per loop, to tell which loop breaks which
C21_ErrorSurfaced_Chat ==
    (stream.decoder = "chat" /\ ErrorProcessed("chat", stream.received))
        => stream.d.shown >= 1
C21_ErrorSurfaced_Query ==
    (stream.decoder = "query" /\ ErrorProcessed("query", stream.received))
        => stream.d.shown >= 1
C21_NoAppendInLaterChunk_Chat ==
    [][(stream.decoder = "chat" /\ ErrorProcessed("chat", stream.received))
          => stream'.d.acc = stream.d.acc]_vars
C21_NoAppendInSameChunk_Chat ==
    [][(/\ stream.decoder = "chat"
        /\ stream'.received # stream.received
        /\ ~ErrorProcessed("chat", stream.received))
          => stream'.d.acc =
               DecodeLines("chat", stream.d,
                   BeforeError(Lines(stream'.received[Len(stream'.received)]))).acc]_vars

\* ------------------------------------------------------------------ C22
IsPrefix(u, v) == Len(u) <= Len(v) /\ SubSeq(v, 1, Len(u)) = u

\* the accumulator after the first i lines of a chunk
AccAfter(decoder, d, lines, i) == DecodeLines(decoder, d, SubSeq(lines, 1, i)).acc

\* C22 as stated: during one stream the accumulator only grows by appending:
\* every value it takes, line after line, has each of its earlier values as
\* a prefix.  Violated by sendChatMessage: `botResponse = data.response`.
C22_AppendOnly ==
    [][stream'.received # stream.received =>
         LET lines == Lines(stream'.received[Len(stream'.received)])
         IN  \A i, j \in 0..Len(lines) :
                 i <= j => IsPrefix(AccAfter(stream.decoder, stream.d, lines, i),
                                    AccAfter(stream.decoder, stream.d, lines, j))]_vars

\* C22, amended: a line either leaves the accumulator with its value before
\* the line as a prefix, or it is a completion envelope of the chat stream
\* and leaves the accumulator equal to the envelope's response; the
\* accumulator of the query loop only ever grows by appending.
C22_AppendOrReplaceOnCompletion ==
    [][stream'.received # stream.received =>
         LET decoder == stream.decoder
             lines == Lines(stream'.received[Len(stream'.received)])
         IN  /\ stream'.d.acc = AccAfter(decoder, stream.d, lines, Len(lines))
             /\ \A i \in 1..Len(lines) :
                   \/ IsPrefix(AccAfter(decoder, stream.d, lines, i - 1),
                               AccAfter(decoder, stream.d, lines, i))
                   \/ /\ decoder = "chat"
                      /\ WellFormed(lines[i])
                      /\ IsCompletion(Parse(lines[i]).data)
                      /\ AccAfter(decoder, stream.d, lines, i) = Parse(lines[i]).data.response]_vars

\* the chat loop has appended a fragment and then read a completion whose
\* response does not start with it: the accumulator has been replaced
C22_Witness ==
    /\ stream.decoder = "chat"
    /\ stream.d.updates >= 1
    /\ stream.d.completions = 1
    /\ \E a \in Answers : stream.d.acc = a
    /\ \E i \in 1..Len(stream.received) :
          \E j \in 1..Len(Lines(stream.received[i])) :
              LET line == Lines(stream.received[i])[j]
              IN  /\ WellFormed(line)
                  /\ IsFragment(Parse(line).data)
                  /\ ~IsPrefix(FragmentText(Parse(line).data), stream.d.acc)

\* ------------------------------------------------------------------ C23
\* the loop's variables after the first i lines of a chunk
DAfter(decoder, d, lines, i) == DecodeLines(decoder, d, SubSeq(lines, 1, i))

\* C23 as stated: an envelope whose status is 'complete', or that has a
\* populated response / generated_answer, fires the completion event;
\* either condition alone is sufficient.  Violated by both loops.
C23_EitherConditionCompletes ==
    [][stream'.received # stream.received =>
         LET decoder == stream.decoder
             lines == ProcessedLines(decoder, stream'.received[Len(stream'.received)])
         IN  \A i \in 1..Len(lines) :
                 (/\ WellFormed(lines[i])
                  /\ \/ Parse(lines[i]).data.status = StatusComplete
                     \/ HasAnswer(Parse(lines[i]).data))
                 => DAfter(decoder, stream.d, lines, i).completions
                      = DAfter(decoder, stream.d, lines, i - 1).completions + 1]_vars

\* C23, amended: the query loop fires the completion event on exactly the
\* envelopes whose status is 'complete' (and that carry no error), with or
\* without a generated_answer; the chat loop fires it on exactly the
\* envelopes that have both a populated response and the status 'complete'.
\* No other line changes the number of completions.
C23_CompletionCondition ==
    [][stream'.received # stream.received =>
         LET decoder == stream.decoder
             lines == ProcessedLines(decoder, stream'.received[Len(stream'.received)])
             Completes(e) ==
                 IF decoder = "query"
                 THEN e.status = StatusComplete /\ ~TruthyText(e.error)
                 ELSE /\ e.status = StatusComplete /\ TruthyText(e.response)
                      /\ ~TruthyText(e.response_chunk)
         IN  /\ stream'.d.completions = DAfter(decoder, stream.d, lines, Len(lines)).completions
             /\ \A i \in 1..Len(lines) :
                   DAfter(decoder, stream.d, lines, i).completions
                     = DAfter(decoder, stream.d, lines, i - 1).completions
                       + (IF WellFormed(lines[i]) /\ Completes(Parse(lines[i]).data)
                          THEN 1 ELSE 0)]_vars

\* the chat loop has processed an envelope with only the status 'complete'
\* and one with only a response, and no completion has fired
C23_Witness ==
    /\ stream.decoder = "chat"
    /\ stream.d.completions = 0
    /\ \E i, j \in 1..Len(stream.received) :
          /\ \E k \in 1..Len(ProcessedLines("chat", stream.received[i])) :
                LET line == ProcessedLines("chat", stream.received[i])[k]
                IN  /\ WellFormed(line)
                    /\ Parse(line).data.status = StatusComplete
                    /\ ~HasAnswer(Parse(line).data)
          /\ \E k \in 1..Len(ProcessedLines("chat", stream.received[j])) :
                LET line == ProcessedLines("chat", stream.received[j])[k]
                IN  /\ WellFormed(line)
                    /\ Parse(line).data.status = Missing
                    /\ HasAnswer(Parse(line).data)

\* ------------------------------------------------------------------ C24
\* an envelope that carries a status and nothing else
IsStatusOnly(e) ==
    /\ TruthyText(e.status)
    /\ ~IsFragment(e) /\ ~HasAnswer(e) /\ ~TruthyText(e.error)

\* C24: a status envelope never changes the accumulator, and an answer
\* fragment envelope appends exactly its fragment, unmodified, to the end of
\* the accumulator; each fragment is also shown as one answer update.
C24_StatusAndFragment ==
    [][stream'.received # stream.received =>
         LET decoder == stream.decoder
             lines == ProcessedLines(decoder, stream'.received[Len(stream'.received)])
         IN  /\ stream'.d.acc = DAfter(decoder, stream.d, lines, Len(lines)).acc
             /\ \A i \in 1..Len(lines) :
                   LET before == DAfter(decoder, stream.d, lines, i - 1)
                       after == DAfter(decoder, stream.d, lines, i)
                       e == Parse(lines[i]).data
                   IN  /\ (WellFormed(lines[i]) /\ IsStatusOnly(e))
                             => after.acc = before.acc
                       /\ (WellFormed(lines[i]) /\ IsFragment(e))
                             => /\ after.acc = before.acc \o FragmentText(e)
                                /\ after.updates = before.updates + 1]_vars

\* the query loop has shown a status and appended the fragments b and a,
\* in this order
C24_Witness ==
    /\ stream.decoder = "query"
    /\ stream.d.statuses = 1
    /\ stream.d.updates = 2
    /\ stream.d.acc = <<"b", "a">>

\* ------------------------------------------------------------------ C25
\* C25: checkBackendStatus sets the status to available and returns true
\* only when the /health call has returned a 2xx response; a non-2xx
\* response, a transport failure and the 3 s abort each set the status to
\* unavailable (with the time of the check) and return false.
C25_HealthProbe ==
    [][\A p \in Probes :
         LET probe == health'.probes[p]
             Unavailable == /\ probe.pc = "done"
                            /\ probe.returned = FALSE
                            /\ health'.available = FALSE
                            /\ health'.indicator = "offline"
                            /\ health'.lastChecked = health.clock
         IN  /\ (health.probes[p].pc # "done" /\ probe.pc = "done" /\ probe.returned)
                   => /\ Ok(probe.status)
                      /\ health'.available = TRUE
                      /\ health'.indicator = "online"
                      /\ health'.lastChecked = health.clock
             /\ \A status \in Statuses :
                   (ProbeRespond(p, status) /\ ~Ok(status)) => Unavailable
             /\ ProbeFail(p) => Unavailable
             /\ ProbeAbort(p) => Unavailable]_vars

\* one call found the backend available and returned true; a later call
\* was aborted by its timer, returned false and left the status unavailable
C25_Witness ==
    \E p, q \in Probes :
        /\ health.probes[p].pc = "done" /\ health.probes[p].returned
        /\ health.probes[q].pc = "done" /\ health.probes[q].cause = "abort"
        /\ ~health.probes[q].returned
        /\ health.available = FALSE
        /\ health.lastChecked = 2

\* ------------------------------------------------------------------ C26
\* a line that holds a part of a JSON text cut by a chunk boundary
IsCut(line) == \E i \in 1..Len(line) : line[i].k \in {"head", "tail"}
IsWhole(line) == ~IsCut(line)

\* C26: every chunk is split into lines on its own and nothing is carried
\* over to the next chunk.  When a JSON line is cut by a chunk boundary,
\* neither part produces an event and its text is not added to the
\* accumulator: the loop's variables after the chunk are those the whole
\* lines of the chunk alone give (only the log of parse failures grows), and
\* the loop goes on reading.
C26_CutLineDropped ==
    [][stream'.received # stream.received =>
         LET decoder == stream.decoder
             chunk == stream'.received[Len(stream'.received)]
             whole == DecodeLines(decoder, stream.d, SelectSeq(Lines(chunk), IsWhole))
             cut == Len(SelectSeq(ProcessedLines(decoder, chunk), IsCut))
         IN  /\ stream'.d = [whole EXCEPT !.logged = @ + cut]
             /\ stream'.pc = "reading"]_vars

\* an answer fragment was cut in two by a chunk boundary and the second
\* chunk went on with a whole fragment: only the whole one is in the
\* accumulator, and both parts of the cut line were logged as parse failures
C26_Witness ==
    /\ Len(stream.received) = 2
    /\ \E e \in Envelopes(stream.decoder) :
          /\ IsFragment(e)
          /\ stream.received[1] = <<Tok("head", e)>>
          /\ \E f \in Envelopes(stream.decoder) :
                /\ IsFragment(f)
                /\ FragmentText(f) # FragmentText(e)
                /\ stream.received[2] = <<Tok("tail", e), NL, Tok("json", f), NL>>
                /\ stream.d.acc = FragmentText(f)
    /\ stream.d.updates = 1
    /\ stream.d.logged = 2

\* ------------------------------------------------------------------ C27
\* C27: within one makeRequest call at most one attempt is in flight at any
\* time: the attempts started are at most one ahead of the attempts that
\* have ended, and attempt n + 1 starts only when attempt n has failed and
\* the retry delay started after that failure has elapsed.
C27_SequentialAttempts ==
    [][\A c \in Slots :
         /\ log'[c].nRequest - Len(log'[c].results) \in {0, 1}
         /\ (log'[c].nRequest - Len(log'[c].results) = 1) = (calls'[c].pc \in {"fetch", "refresh", "refetch"})
         /\ (log'[c].nRequest > log[c].nRequest /\ calls'[c].attempt > 1)
               => /\ DelayElapsed(c)
                  /\ calls'[c].attempt = calls[c].attempt + 1
                  /\ Len(log[c].results) = calls[c].attempt
                  /\ LET last == log[c].results[calls[c].attempt]
                     IN  ~(last.t = "resp" /\ Ok(last.status))
                  /\ log[c].nDelay = calls[c].attempt]_vars

\* the third attempt of a call is in flight: two attempts have failed and
\* two delays have been waited for
C27_Witness ==
    \E c \in Slots :
        /\ calls[c].pc = "fetch"
        /\ calls[c].attempt = 3
        /\ log[c].nRequest = 3
        /\ Len(log[c].results) = 2
        /\ log[c].nDelay = 2

\* ------------------------------------------------------------------ C28
\* C28: when the replay of a queue entry has failed, processOfflineQueue
\* goes on with the next entry of the pass, and ends normally after the last
\* one: every entry of the queue read at the start of the pass is passed to
\* makeRequest once, in order, whatever the outcomes of the entries before
\* it, and the pass ends with one outcome per entry.
C28_FailedReplayDoesNotAbort ==
    [][\A p \in Passes :
         LET c == PassSlot(p)
             pass == passes[p]
         IN  /\ (PassReturn(p) /\ calls[c].outcome.kind = "error")
                   => IF pass.idx < Len(pass.queue)
                      THEN /\ passes'[p].pc = "running"
                           /\ passes'[p].idx = pass.idx + 1
                           /\ passes'[p].queue = pass.queue
                           /\ calls'[c] = makeRequest(pass.queue[pass.idx + 1].endpoint,
                                                      pass.queue[pass.idx + 1].options)
                      ELSE passes'[p].pc = "done"
             /\ passes'[p].pc = "running"
                   => /\ passes'[p].idx \in 1..Len(passes'[p].queue)
                      /\ Len(passes'[p].outcomes) = passes'[p].idx - 1
                      /\ calls'[c].pc # "idle"
             /\ (passes'[p].pc = "done" /\ passes'[p].queue # <<>>)
                   => Len(passes'[p].outcomes) = Len(passes'[p].queue)
             /\ passes'[p].idx # pass.idx => passes'[p].idx = pass.idx + 1]_vars

\* a pass over two entries has ended: the replay of the first entry failed
\* and the second entry was replayed, with success
C28_Witness ==
    \E p \in Passes :
        /\ passes[p].pc = "done"
        /\ Len(passes[p].queue) = MaxQueue
        /\ passes[p].outcomes[1] = "failed"
        /\ passes[p].outcomes[Len(passes[p].queue)] = "ok"

\* ------------------------------------------------------------------ C29
NoPassRunning == \A p \in Passes : passes[p].pc # "running"

\* C29 as stated: whenever no queue operation is in progress, the persisted
\* 'offline_queue' holds the entries of the in-memory queue.  Violated: a
\* FormData body is persisted as {}, and a page load starts with an empty
\* in-memory queue whatever the storage holds.
C29_PersistedEqualsMemory ==
    NoPassRunning => PersistedQueue(storage) = offlineQueue

\* the same up to the serialisation of the entries: still violated, by the
\* page load alone
C29_PersistedIsSerialisedMemory ==
    NoPassRunning => PersistedQueue(storage) = Stringify(offlineQueue)

\* and within one page load it holds
C29_SerialisedWithinOnePageLoad ==
    (NoPassRunning /\ reloads = 0) => PersistedQueue(storage) = Stringify(offlineQueue)

C31_ResendIsOriginalCall ==
    [][\A c \in Slots :
         (calls[c].pc = "refresh" /\ calls'[c].pc = "refetch")
           => /\ calls'[c].endpoint = calls[c].endpoint
              /\ calls'[c].options = calls[c].options
              /\ log'[c].sentType = log[c].sentType]_vars

\* the part of C31 that holds: endpoint, method and body are those of the
\* first send, and for a caller that passed no headers the two sends
\* differ in nothing but the Authorization header
C31_ResendKeepsEndpointAndBody ==
    [][\A c \in Slots :
         (calls[c].pc = "refresh" /\ calls'[c].pc = "refetch")
           => /\ calls'[c].endpoint = calls[c].endpoint
              /\ calls'[c].options = calls[c].options
              /\ calls[c].options.headers = Absent
                    => log'[c].sentType = log[c].sentType]_vars

\* ------------------------------------------------------------------ C32
\* the outcome of a makeRequest call that has ended is a 2xx response, or
\* the error of its last attempt, or the 'queued' error
OneOfThreeOutcomes(c) ==
    LET call == calls[c]
        last == log[c].results[Len(log[c].results)]
    IN  \/ /\ call.outcome.kind = "response" /\ Ok(call.outcome.status)
           /\ ~call.queued
        \/ /\ call.outcome.kind = "error" /\ ~call.queued
           /\ call.outcome.error = CaughtError(last)
           /\ call.outcome.error # QueuedError
        \/ /\ call.outcome.kind = "error" /\ call.queued
           /\ call.outcome.error = QueuedError

\* C32: provided every HTTP call ends, every makeRequest call ends, with a
\* 2xx response, the last underlying error or the 'queued' error; it sends
\* the original call at most 6 times (2 * retryAttempts) and makes at most
\* 3 refresh calls (retryAttempts).
C32_CallEnds ==
    /\ [](\A c \in Slots :
            /\ log[c].nFetch <= 2 * retryAttempts
            /\ log[c].nRefresh <= retryAttempts
            /\ calls[c].pc = "done" => OneOfThreeOutcomes(c))
    /\ \A c \in Slots :
          (calls[c].pc \in {"fetch", "refresh", "refetch", "delay"}) ~> (calls[c].pc = "done")

\* a call has ended after 6 sends and 3 refresh calls
C32_Witness ==
    \E c \in Slots :
        /\ calls[c].pc = "done"
        /\ log[c].nFetch = 2 * retryAttempts
        /\ log[c].nRefresh = retryAttempts
        /\ OneOfThreeOutcomes(c)

\* ------------------------------------------------------------------ C33
\* C33 as stated: once a completion event has fired, no later envelope of
\* the stream, in the same chunk or in a later chunk, changes the
\* accumulator or fires a second completion event.  Violated by both loops.
C33_NothingAfterCompletion ==
    [][stream'.received # stream.received =>
         LET decoder == stream.decoder
             lines == Lines(stream'.received[Len(stream'.received)])
         IN  /\ stream'.d.completions <= 1
             /\ stream.d.completions >= 1 => stream'.d.acc = stream.d.acc
             /\ \A i \in 1..Len(lines) :
                   DAfter(decoder, stream.d, lines, i).completions >= 1
                     => stream'.d.acc = DAfter(decoder, stream.d, lines, i).acc]_vars

\* the part that holds: in the chat loop the lines that follow a completion
\* envelope in its own chunk change nothing
C33_RestOfChunkSkipped_Chat ==
    [][(stream'.received # stream.received /\ stream.decoder = "chat") =>
         LET lines == Lines(stream'.received[Len(stream'.received)])
         IN  \A i \in 1..Len(lines) :
                 DAfter("chat", stream.d, lines, i).completions > stream.d.completions
                   => stream'.d = DAfter("chat", stream.d, lines, i)]_vars

\* and the part of it that fails in the chat loop too: a chunk read after
\* the completion
C33_LaterChunkIgnored_Chat ==
    [][(stream.decoder = "chat" /\ stream.d.completions >= 1)
         => /\ stream'.d.acc = stream.d.acc
            /\ stream'.d.completions = stream.d.completions]_vars

\* ------------------------------------------------------------------ C34
\* the sendChatMessage calls that have not ended
Decoding == {k \in Chats : chat.calls[k].pc \in {"fetch", "reading"}}

\* C34: at most one sendChatMessage call is under way at any time, and
\* isTyping is true exactly while one is: handleChatSubmit starts no call
\* while isTyping is true.  So only the one call under way decodes chunks
\* into an accumulator, and the message history gets the exchanges whole,
\* one call after the other, each at most once.
C34_OneChatStream ==
    /\ Cardinality(Decoding) <= 1
    /\ chat.isTyping = (Decoding # {})
    /\ \A i, j \in 1..Len(chat.messageHistory) :
          /\ i < j => chat.messageHistory[i] < chat.messageHistory[j]
          /\ chat.calls[chat.messageHistory[i]].cause = "exhausted"

\* a submit has been refused while a stream was being decoded, and the
\* second message is now being decoded after the first exchange was put in
\* the message history
C34_Witness ==
    /\ chat.refused = 1
    /\ chat.messageHistory = <<1>>
    /\ chat.calls[2].pc = "reading"
    /\ chat.calls[2].chunks >= 1
    /\ chat.isTyping

\* ------------------------------------------------------------------ C35
\* C35: a sendChatMessage call that ends, by the end of the stream, a
\* non-2xx response, a transport error or the timeout abort, leaves
\* isTyping false, so that a submit made afterwards is accepted.
C35_TypingResetAtEnd ==
    [][\A k \in Chats :
         (chat.calls[k].pc # "ended" /\ chat'.calls[k].pc = "ended")
           => /\ chat'.calls[k].cause \in {"exhausted", "status", "network", "abort"}
              /\ chat'.isTyping = FALSE
              /\ SubmitAccepted(chat'.isTyping)]_vars

\* the first call was ended by the timeout abort and the submit made after
\* it has been accepted: its call awaits the fetch
C35_Witness ==
    /\ chat.calls[1].pc = "ended"
    /\ chat.calls[1].cause = "abort"
    /\ chat.calls[2].pc = "fetch"
    /\ chat.refused = 0

\* ------------------------------------------------------------------ C36
\* C36 as stated: after an 'online' transition with n items in the sync
\* queue and no item added meanwhile, the staggered sync removes every
\* item: once the n-th timer has fired, AppState.offlineQueue and the
\* persisted 'agri_offline_queue' are both empty.  Violated for n >= 2.
C36_StaggeredSyncEmptiesQueue ==
    [][\A i \in 1..Len(sync.timers) :
         (/\ TimerFires(i)
          /\ Len(sync.timers) = 1
          /\ sync'.timers[i].next = sync'.timers[i].n
          /\ ~sync'.added)
           => /\ sync'.queue = <<>>
              /\ sync'.stored = [set |-> TRUE, value |-> <<>>]]_vars

\* what the timers do leave: of n items, those at the positions 2, 4, ..
C36_EverySecondItemRemains ==
    [][\A i \in 1..Len(sync.timers) :
         (/\ TimerFires(i)
          /\ Len(sync.timers) = 1
          /\ sync'.timers[i].next = sync'.timers[i].n
          /\ ~sync'.added)
           => /\ Len(sync'.queue) = sync'.timers[i].n \div 2
              /\ sync'.stored = [set |-> TRUE, value |-> sync'.queue]]_vars

\* ------------------------------------------------------------------ C37
\* C37 as stated: at application start with the client online and a
\* non-empty persisted 'agri_offline_queue', the persisted queue is loaded
\* into AppState.offlineQueue before the sync is triggered, so that the
\* start-up itself sets the timers that sync its items.  Violated: the
\* queue is loaded after the sync was triggered on the empty queue.
C37_StoredQueueSyncedAtStart ==
    [][(AppStart /\ onLine /\ sync.stored.set /\ sync.stored.value # <<>>)
         => /\ sync'.queue = sync.stored.value
            /\ sync'.timers = <<[n |-> Len(sync.stored.value), next |-> 0]>>]_vars

\* the part that holds: the start-up does load the persisted queue
C37_StoredQueueLoadedAtStart ==
    [][(AppStart /\ sync.stored.set) => sync'.queue = sync.stored.value]_vars
====
